---- MODULE Spec2Model ----
(***************************************************************************)
(* Model of the fund-portfolio overlay program (y1-fan/overlay):           *)
(*   - align_time_series_data    (modules/analytics.py and overlay.py)     *)
(*   - calculate_investment_metrics (modules/analytics.py, overlay.py)     *)
(*   - update_graph_and_feedback (overlay.py), the chart request handler   *)
(*                                                                         *)
(* Conventions.  A timestamp is an integer day number.  A float is an      *)
(* extended rational <<n, d>>: d > 0 and gcd(n, d) = 1 for a finite value, *)
(* <<0, 0>> for NaN, <<1, 0>> for +inf and <<-1, 0>> for -inf.  IEEE       *)
(* rounding of finite results is not modelled; the special values and the  *)
(* comparisons with NaN follow IEEE/numpy.  A pandas DataFrame with one    *)
(* value column is [fund_id |-> column name, rows |-> sequence of          *)
(* [t |-> index label, v |-> value]] in row order.                         *)
(***************************************************************************)
EXTENDS Integers, Sequences, FiniteSets, TLC

\* ------------------------------------------------------------------------
\* Bounds of the input domains
\* ------------------------------------------------------------------------
MaxTime == 3

MaxVal == 2

MaxLen == 2

MaxFunds == 2

MaxNav == 4

MaxPortfolios == 2

\* ------------------------------------------------------------------------
\* Extended rational arithmetic (float64 values of pandas/numpy)
\* ------------------------------------------------------------------------
Abs(n) == IF n < 0 THEN -n ELSE n

Sign(n) == IF n < 0 THEN -1 ELSE IF n > 0 THEN 1 ELSE 0

RECURSIVE Gcd(_, _)
Gcd(a, b) == IF b = 0 THEN a ELSE Gcd(b, a % b)

NaN == <<0, 0>>

PosInf == <<1, 0>>

Zero == <<0, 1>>

One == <<1, 1>>

IsNaN(a) == a[2] = 0 /\ a[1] = 0

IsInf(a) == a[2] = 0 /\ a[1] # 0

IsFinite(a) == a[2] > 0

\* the finite value n/d, d # 0, in lowest terms
Rat(n, d) ==
    LET g == Gcd(Abs(n), Abs(d))
        s == IF d < 0 THEN -1 ELSE 1
    IN  <<s * (n \div g), s * (d \div g)>>

\* a * b
XMul(a, b) ==
    IF IsNaN(a) \/ IsNaN(b) THEN NaN
    ELSE IF IsInf(a) \/ IsInf(b)
         THEN IF a[1] = 0 \/ b[1] = 0 THEN NaN
              ELSE <<Sign(a[1]) * Sign(b[1]), 0>>
    ELSE LET g1 == Gcd(Abs(a[1]), b[2])
             g2 == Gcd(Abs(b[1]), a[2])
         IN  Rat((a[1] \div g1) * (b[1] \div g2), (a[2] \div g2) * (b[2] \div g1))

\* a / b ; x / 0 is +-inf and 0 / 0 is NaN, no exception (numpy semantics)
XDiv(a, b) ==
    IF IsNaN(a) \/ IsNaN(b) THEN NaN
    ELSE IF IsInf(b) THEN (IF IsInf(a) THEN NaN ELSE Zero)
    ELSE IF b[1] = 0 THEN (IF a[1] = 0 THEN NaN ELSE <<Sign(a[1]), 0>>)
    ELSE IF IsInf(a) THEN <<Sign(a[1]) * Sign(b[1]), 0>>
    ELSE XMul(a, Rat(b[2], b[1]))

\* a + b
XAdd(a, b) ==
    IF IsNaN(a) \/ IsNaN(b) THEN NaN
    ELSE IF IsInf(a) /\ IsInf(b) THEN (IF a[1] = b[1] THEN a ELSE NaN)
    ELSE IF IsInf(a) THEN a
    ELSE IF IsInf(b) THEN b
    ELSE LET g == Gcd(a[2], b[2])
         IN  Rat(a[1] * (b[2] \div g) + b[1] * (a[2] \div g), (a[2] \div g) * b[2])

XNeg(a) == <<-a[1], a[2]>>

XSub(a, b) == XAdd(a, XNeg(b))

\* a < b ; every comparison with NaN is false
XLt(a, b) ==
    IF IsNaN(a) \/ IsNaN(b) THEN FALSE
    ELSE IF IsInf(a) THEN a[1] < 0 /\ b # a
    ELSE IF IsInf(b) THEN b[1] > 0
    ELSE LET g == Gcd(a[2], b[2])
         IN  a[1] * (b[2] \div g) < b[1] * (a[2] \div g)

\* a != 0 as Python evaluates it (NaN != 0 is True)
NonZero(a) == ~(IsFinite(a) /\ a[1] = 0)

Int2X(n) == <<n, 1>>

\* ------------------------------------------------------------------------
\* DataFrame helpers
\* ------------------------------------------------------------------------
Range(s) == {s[i] : i \in DOMAIN s}

SetMin(S) == CHOOSE x \in S : \A y \in S : x <= y

SetMax(S) == CHOOSE x \in S : \A y \in S : x >= y

\* df.index as a set of labels
IndexSet(rows) == {rows[i].t : i \in DOMAIN rows}

\* the elements of a set of timestamps in ascending order
Ascending(T) ==
    [i \in 1..Cardinality(T) |->
        CHOOSE x \in T : Cardinality({y \in T : y < x}) = i - 1]

\* df.empty
Empty(df) == Len(df.rows) = 0

\* df[df.index >= start] : boolean-mask selection, row order kept
Truncate(rows, start) == SelectSeq(rows, LAMBDA r : r.t >= start)

\* mutant: the base value is subtracted, not divided by
DivideBy_Difference(rows, first_value) ==
    [i \in DOMAIN rows |-> [t |-> rows[i].t, v |-> XSub(rows[i].v, first_value)]]

\* df[col] / first_value
DivideBy(rows, first_value) ==
    [i \in DOMAIN rows |-> [t |-> rows[i].t, v |-> XDiv(rows[i].v, first_value)]]


None == <<>>

Some(x) == <<x>>

\* ------------------------------------------------------------------------
\* align_time_series_data, modules/analytics.py
\* ------------------------------------------------------------------------
\* time_info : one entry per fund whose df is not empty
TimeInfo(fund_dfs) ==
    LET nonEmpty == SelectSeq(fund_dfs, LAMBDA fund : ~Empty(fund.df))
    IN  [i \in DOMAIN nonEmpty |->
            [fund_id    |-> nonEmpty[i].df.fund_id,
             start_time |-> SetMin(IndexSet(nonEmpty[i].df.rows)),
             end_time   |-> SetMax(IndexSet(nonEmpty[i].df.rows)),
             data_points |-> Len(nonEmpty[i].df.rows)]]

\* mutant: the earliest start instead of the latest
LatestStart_Earliest(time_info) == SetMin({time_info[i].start_time : i \in DOMAIN time_info})

LatestStart(time_info) == SetMax({time_info[i].start_time : i \in DOMAIN time_info})

EarliestEnd(time_info) == SetMin({time_info[i].end_time : i \in DOMAIN time_info})

NeedsAlignment(time_info) ==
    \E i \in DOMAIN time_info : time_info[i].start_time < LatestStart(time_info)

\* the truncation loop: non-empty frames cut to index >= latest_start, the
\* frames left empty by the cut are not appended
AlignedFundDfs(fund_dfs, latest_start) ==
    LET cut == [i \in DOMAIN fund_dfs |->
                   [df    |-> [fund_id |-> fund_dfs[i].df.fund_id,
                               rows    |-> Truncate(fund_dfs[i].df.rows, latest_start)],
                    share |-> fund_dfs[i].share]]
    IN  SelectSeq(cut, LAMBDA fund : ~Empty(fund.df))

\* first_value = df[fund_id].iloc[0] ; the caller guarantees a first row
FirstValue(df) == df.rows[1].v

\* mutant: no test of the base value, every fund is normalized and appended
KeepsFund_Always(fund) == TRUE

\* first_value != 0 : the fund is normalized and appended, otherwise skipped
KeepsFund(fund) == NonZero(FirstValue(fund.df))

\* mutant: the base is the value of the last row
NormalizedDf_LastBase(df) ==
    [fund_id |-> df.fund_id, rows |-> DivideBy(df.rows, df.rows[Len(df.rows)].v)]

\* normalized_df[fund_id] = normalized_df[fund_id] / first_value
NormalizedDf(df) ==
    [fund_id |-> df.fund_id, rows |-> DivideBy(df.rows, FirstValue(df))]

\* the normalization loop over funds whose frames all have a first row
NormalizedFundDfs(funds) ==
    LET kept == SelectSeq(funds, KeepsFund)
    IN  [i \in DOMAIN kept |->
            [df |-> NormalizedDf(kept[i].df), share |-> kept[i].share]]

Stats(isAligned, time_info, original, result) ==
    Some([aligned        |-> isAligned,
          latest_start   |-> LatestStart(time_info),
          earliest_end   |-> EarliestEnd(time_info),
          original_count |-> Len(original),
          aligned_count  |-> Len(result)])

Returned(list, stats) == [raised |-> FALSE, list |-> list, stats |-> stats]

\* an exception leaves the function: nothing is returned
Raised == [raised |-> TRUE, list |-> <<>>, stats |-> None]

align_time_series_data(fund_dfs) ==
    LET time_info == TimeInfo(fund_dfs)
    IN  IF Len(fund_dfs) = 0 THEN Returned(fund_dfs, None)
        ELSE IF Len(time_info) = 0 THEN Returned(fund_dfs, None)
        ELSE IF NeedsAlignment(time_info)
        THEN LET normalized ==
                     NormalizedFundDfs(AlignedFundDfs(fund_dfs, LatestStart(time_info)))
             IN  Returned(normalized, Stats(TRUE, time_info, fund_dfs, normalized))
        \* not-aligned branch: iloc[0] of an empty frame raises IndexError
        ELSE IF \E i \in DOMAIN fund_dfs : Empty(fund_dfs[i].df) THEN Raised
        ELSE LET normalized == NormalizedFundDfs(fund_dfs)
             IN  Returned(normalized, Stats(FALSE, time_info, fund_dfs, normalized))

\* ------------------------------------------------------------------------
\* align_time_series_data, overlay.py
\* ------------------------------------------------------------------------
\* aligned_df[fund_id] / first_value when first_value != 0 ; the frame is
\* appended either way
OverlayRebasedDf(df) ==
    IF NonZero(FirstValue(df)) THEN NormalizedDf(df) ELSE df

OverlayAlignedFundDfs(fund_dfs, latest_start) ==
    LET aligned == AlignedFundDfs(fund_dfs, latest_start)
    IN  [i \in DOMAIN aligned |->
            [df |-> OverlayRebasedDf(aligned[i].df), share |-> aligned[i].share]]

overlay_align_time_series_data(fund_dfs) ==
    LET time_info == TimeInfo(fund_dfs)
    IN  IF Len(fund_dfs) = 0 THEN Returned(fund_dfs, None)
        ELSE IF Len(time_info) = 0 THEN Returned(fund_dfs, None)
        ELSE IF NeedsAlignment(time_info)
        THEN LET aligned == OverlayAlignedFundDfs(fund_dfs, LatestStart(time_info))
             IN  Returned(aligned, Stats(TRUE, time_info, fund_dfs, aligned))
        ELSE Returned(fund_dfs, Stats(FALSE, time_info, fund_dfs, fund_dfs))


\* ------------------------------------------------------------------------
\* What the calls leave in the caller's list
\* ------------------------------------------------------------------------
\* mutant: the division is written into the caller's frame
InputAfterWrite_InPlace(df, written) == written

\* the write goes to normalized_df = df.copy() (analytics.py) or to
\* aligned_df = df[df.index >= latest_start] (overlay.py), a new frame:
\* the caller's frame keeps its rows
InputAfterWrite(df, written) == df

\* the frame the loops of a call look at: cut when the call aligns
FrameSeen(df, time_info) ==
    IF NeedsAlignment(time_info)
    THEN [fund_id |-> df.fund_id, rows |-> Truncate(df.rows, LatestStart(time_info))]
    ELSE df

\* analytics.py: the input list after the call
AnalyticsInputAfter(fund_dfs) ==
    LET time_info == TimeInfo(fund_dfs)
    IN  IF Len(fund_dfs) = 0 \/ Len(time_info) = 0 THEN fund_dfs
        ELSE [i \in DOMAIN fund_dfs |->
                 LET seen == FrameSeen(fund_dfs[i].df, time_info)
                 IN  [df    |-> IF ~Empty(seen) /\ NonZero(FirstValue(seen))
                                THEN InputAfterWrite(fund_dfs[i].df, NormalizedDf(seen))
                                ELSE fund_dfs[i].df,
                      share |-> fund_dfs[i].share]]

\* overlay.py: the input list after the call; only the aligned branch writes
OverlayInputAfter(fund_dfs) ==
    LET time_info == TimeInfo(fund_dfs)
    IN  IF Len(fund_dfs) = 0 \/ Len(time_info) = 0 THEN fund_dfs
        ELSE IF ~NeedsAlignment(time_info) THEN fund_dfs
        ELSE [i \in DOMAIN fund_dfs |->
                 LET seen == FrameSeen(fund_dfs[i].df, time_info)
                 IN  [df    |-> IF ~Empty(seen) /\ NonZero(FirstValue(seen))
                                THEN InputAfterWrite(fund_dfs[i].df, NormalizedDf(seen))
                                ELSE fund_dfs[i].df,
                      share |-> fund_dfs[i].share]]

\* ------------------------------------------------------------------------
\* calculate_investment_metrics, modules/analytics.py (overlay.py is the
\* same code with print in place of safe_print).  The fields that need a
\* root or a real power (annualized_return, volatility, sharpe_ratio,
\* calmar_ratio, var_95) are not part of the model.
\* ------------------------------------------------------------------------
\* nav_series.isnull().any()
HasNaN(nav) == \E i \in DOMAIN nav : IsNaN(nav[i].v)

\* nav_series.dropna()
DropNa(nav) == SelectSeq(nav, LAMBDA r : ~IsNaN(r.v))

\* nav_series.pct_change() : the first entry is NaN
PctChange(nav) ==
    [i \in DOMAIN nav |->
        IF i = 1 THEN NaN ELSE XSub(XDiv(nav[i].v, nav[i - 1].v), One)]

\* returns = nav_series.pct_change().dropna()
Returns(nav) == SelectSeq(PctChange(nav), LAMBDA r : ~IsNaN(r))

\* mutant: the change taken backwards, the previous value minus this one
Diff_Backward(nav) ==
    [i \in DOMAIN nav |-> IF i = 1 THEN NaN ELSE XSub(nav[i - 1].v, nav[i].v)]

\* nav_series.diff() : the first entry is NaN
Diff(nav) ==
    [i \in DOMAIN nav |-> IF i = 1 THEN NaN ELSE XSub(nav[i].v, nav[i - 1].v)]

\* the value of the series after the missing values are dropped, when the
\* isnull test asks for it
Cleaned(nav) == IF HasNaN(nav) THEN DropNa(nav) ELSE nav

\* mutant: only the empty test guards the computation
EarlyReturn_EmptyOnly(nav) == Len(nav) = 0

\* the three returns of None: too short, too short once cleaned, no return
EarlyReturn(nav) ==
    \/ Len(nav) = 0 \/ Len(nav) < 2
    \/ (HasNaN(nav) /\ Len(DropNa(nav)) < 2)
    \/ Len(Returns(Cleaned(nav))) = 0

\* max(a, b) on floats, a NaN operand is skipped as cummax/min do
XMax(a, b) == IF IsNaN(a) THEN b ELSE IF IsNaN(b) THEN a ELSE IF XLt(a, b) THEN b ELSE a

XMin(a, b) == IF IsNaN(a) THEN b ELSE IF IsNaN(b) THEN a ELSE IF XLt(b, a) THEN b ELSE a

\* mutant: the maximum of the whole series at every position
CumMax_Whole(nav) ==
    LET RECURSIVE Whole(_)
        Whole(i) == IF i = 1 THEN nav[1].v ELSE XMax(Whole(i - 1), nav[i].v)
    IN  [i \in DOMAIN nav |-> Whole(Len(nav))]

\* nav_series.cummax()
CumMax(nav) ==
    LET RECURSIVE Running(_)
        Running(i) == IF i = 1 THEN nav[1].v ELSE XMax(Running(i - 1), nav[i].v)
    IN  [i \in DOMAIN nav |-> Running(i)]

\* cumulative = nav_series / nav_series.cummax()
Cumulative(nav) == [i \in DOMAIN nav |-> XDiv(nav[i].v, CumMax(nav)[i])]

\* Series.min(), NaN entries skipped, NaN for no entry
SeriesMin(s) ==
    LET RECURSIVE Least(_)
        Least(i) == IF i = 0 THEN NaN ELSE XMin(Least(i - 1), s[i])
    IN  Least(Len(s))

\* max_drawdown = (cumulative.min() - 1) * 100
MaxDrawdown(nav) == XMul(XSub(SeriesMin(Cumulative(nav)), One), Int2X(100))

\* mutant: the ratio of last to first, without the - 1
TotalReturn_Ratio(nav) == XMul(XDiv(nav[Len(nav)].v, nav[1].v), Int2X(100))

\* total_return = (nav_series.iloc[-1] / nav_series.iloc[0] - 1) * 100
TotalReturn(nav) == XMul(XSub(XDiv(nav[Len(nav)].v, nav[1].v), One), Int2X(100))

\* mutant: a return of zero counts as a win
IsWin_OrTie(r) == ~XLt(r, Zero) /\ ~IsNaN(r)

\* returns > 0
IsWin(r) == XLt(Zero, r)

\* win_rate = (returns > 0).sum() / len(returns) * 100
WinRate(returns) ==
    XMul(XDiv(Int2X(Len(SelectSeq(returns, IsWin))), Int2X(Len(returns))), Int2X(100))

\* round(x, digits) with scale = 10 ** digits : to the nearest, ties to even
Round(x, scale) ==
    IF ~IsFinite(x) THEN x
    ELSE LET g == Gcd(scale, x[2])
             m == x[1] * (scale \div g)
             d == x[2] \div g
             q == m \div d
             r == m % d
             up == 2 * r > d \/ (2 * r = d /\ q % 2 = 1)
         IN  Rat(IF up THEN q + 1 ELSE q, scale)

\* mutant: a flat step counts as a down step
IsDown_OrFlat(change) == ~XLt(Zero, change)

\* change < 0
IsDown(change) == XLt(change, Zero)

\* one iteration of the loop over nav_changes
ScanStep(c, change) ==
    IF IsNaN(change) THEN c
    ELSE IF IsDown(change)
         THEN [consecutive_down |-> c.consecutive_down + 1,
               max_consecutive_down |->
                   IF c.max_consecutive_down > c.consecutive_down + 1
                   THEN c.max_consecutive_down ELSE c.consecutive_down + 1]
    ELSE [consecutive_down |-> 0, max_consecutive_down |-> c.max_consecutive_down]

ScanStart == [consecutive_down |-> 0, max_consecutive_down |-> 0]

RECURSIVE ScanFrom(_, _, _)
ScanFrom(changes, i, c) ==
    IF i > Len(changes) THEN c ELSE ScanFrom(changes, i + 1, ScanStep(c, changes[i]))

\* the values computed before the loop, not rounded
Locals(nav) ==
    [days         |-> nav[Len(nav)].t - nav[1].t,
     total_return |-> TotalReturn(nav),
     max_drawdown |-> MaxDrawdown(nav),
     win_rate     |-> WinRate(Returns(nav))]

\* years = days / 365.25
Years(d) == Rat(4 * d, 1461)

\* base ** (1 / years) for years > 0. The exponent 1461 / (4 * days) is
\* never an integer and the power is irrational in general: where it is not
\* exact the operator gives the two ends of an interval that encloses it
\* (PosInf as the upper end stands for "no upper bound").
\*   base < 0                  : nan (a fractional power of a negative float)
\*   base in {nan, 0, 1, inf}  : base
\*   exponent < 1              : between base and 1
\*   exponent >= 1, base < 1   : between 0 and base
\*   exponent >= 1, base > 1   : between base and base * (1 + (e - 1)(base - 1))
\*                               when e <= 2 (Bernoulli), above base otherwise
Power(base, d) ==
    IF IsNaN(base) \/ XLt(base, Zero) THEN {NaN}
    ELSE IF base = Zero \/ base = One \/ base = PosInf THEN {base}
    ELSE IF 4 * d > 1461 THEN {base, One}
    ELSE IF XLt(base, One) THEN {Zero, base}
    ELSE IF 8 * d >= 1461
         THEN {base, XMul(base, XAdd(One, XMul(Rat(1461 - 4 * d, 4 * d),
                                              XSub(base, One))))}
    ELSE {base, PosInf}

\* lines 211-214: the values annualized_return can take
\*   if years > 0: ((last / first) ** (1 / years) - 1) * 100   else: 0
AnnualizedReturns(nav, d) ==
    IF XLt(Zero, Years(d))
    THEN {XMul(XSub(pw, One), Int2X(100)) :
             pw \in Power(XDiv(nav[Len(nav)].v, nav[1].v), d)}
    ELSE {Zero}

\* abs(x)
XAbs(x) == IF XLt(x, Zero) THEN XNeg(x) ELSE x

\* mutant: the guard lets a drawdown of zero through
CalmarRatio_NotPositive(annualized, drawdown) ==
    IF ~XLt(Zero, drawdown)
    THEN XDiv(XDiv(annualized, Int2X(100)), XAbs(XDiv(drawdown, Int2X(100))))
    ELSE Zero

\* lines 235-238:
\*   if max_drawdown < 0: (annualized_return / 100) / abs(max_drawdown / 100)
\*   else: 0
CalmarRatio(annualized, drawdown) ==
    IF XLt(drawdown, Zero)
    THEN XDiv(XDiv(annualized, Int2X(100)), XAbs(XDiv(drawdown, Int2X(100))))
    ELSE Zero

\* lines 265 and 269: the two entries of the dictionary built from the power
RatioFields(annualized, calmar) ==
    [annualized_return |-> Round(annualized, 100),
     calmar_ratio      |-> Round(calmar, 1000)]

\* the metrics dictionary, built from the locals loc and the loop's result
MetricsRecord(nav, loc, maxDown) ==
    [start_date           |-> nav[1].t,
     end_date             |-> nav[Len(nav)].t,
     days                 |-> loc.days,
     total_return         |-> Round(loc.total_return, 100),
     max_drawdown         |-> Round(loc.max_drawdown, 100),
     win_rate             |-> Round(loc.win_rate, 100),
     max_consecutive_down |-> maxDown,
     final_nav            |-> Round(nav[Len(nav)].v, 10000)]

\* the function as a whole
calculate_investment_metrics(nav) ==
    IF EarlyReturn(nav) THEN None
    ELSE Some(MetricsRecord(Cleaned(nav), Locals(Cleaned(nav)),
                  ScanFrom(Diff(Cleaned(nav)), 1, ScanStart).max_consecutive_down))

\* ------------------------------------------------------------------------
\* update_graph_and_feedback, overlay.py : loading one fund
\*
\* A fund of the parsed form is [share, source, fund_code, table]: share is
\* None or Some(number); source is "none" (no data source chosen),
\* "script", "file" (an existing path) or "missing" (a path that does not
\* exist); table is what the script prints or the file holds:
\* [kind, bad_time, numeric, rows] with kind "time" (columns time + value),
\* "fsrq" (columns FSRQ + DWJZ), "other" (neither) or "fail" (the script
\* fails or prints nothing, read_csv raises); bad_time: a time cell that
\* pd.to_datetime cannot parse; numeric: the value column has a numeric
\* dtype; a NaN value is a blank cell.  Timestamps of a table are unique.
\* ------------------------------------------------------------------------
Appended(fund_id, rows, share) ==
    [outcome |-> "appended",
     entry   |-> [df    |-> [fund_id |-> fund_id, rows |-> rows],
                  share |-> IF share = None THEN 0 ELSE share[1]]]

Skipped == [outcome |-> "skipped", entry |-> None]

Unhandled == [outcome |-> "raised", entry |-> None]

\* df.sort_index()
SortIndex(rows) ==
    LET order == Ascending(IndexSet(rows))
    IN  [k \in DOMAIN order |-> rows[CHOOSE j \in DOMAIN rows : rows[j].t = order[k]]]

\* df[value_col] = df[value_col] / df[value_col].iloc[0]
PreNormalized(rows) == DivideBy(rows, rows[1].v)

\* lines 1536-1556: the script branch, outside any try
LoadFromScript(fund_id, fund) ==
    IF ~fund.fund_code THEN Skipped
    ELSE IF fund.table.kind # "time" THEN Skipped
    ELSE IF fund.table.bad_time THEN Unhandled
    ELSE IF ~fund.table.numeric \/ Len(fund.table.rows) = 0 THEN Skipped
    ELSE Appended(fund_id, PreNormalized(fund.table.rows), fund.share)

\* lines 1557-1580: the file branch, inside try/except/continue
LoadFromFile(fund_id, fund) ==
    IF fund.table.kind = "time"
    THEN IF fund.table.bad_time \/ Len(fund.table.rows) = 0 \/ ~fund.table.numeric
         THEN Skipped
         ELSE Appended(fund_id, PreNormalized(fund.table.rows), fund.share)
    ELSE IF fund.table.kind = "fsrq"
    THEN LET cleaned == SelectSeq(SortIndex(fund.table.rows), LAMBDA r : ~IsNaN(r.v))
         IN  IF fund.table.bad_time \/ ~fund.table.numeric \/ Len(cleaned) = 0
             THEN Skipped
             ELSE Appended(fund_id, PreNormalized(cleaned), fund.share)
    ELSE Skipped

\* lines 1526-1580: one iteration of the loop over the funds
LoadFund(fund_id, fund) ==
    IF fund.source = "script" THEN LoadFromScript(fund_id, fund)
    ELSE IF fund.source = "file" THEN LoadFromFile(fund_id, fund)
    ELSE Skipped

\* the loop over the funds of a portfolio: fund_dfs, or an exception
LoadOutcomes(funds) == [i \in DOMAIN funds |-> LoadFund(i, funds[i])]

LoadRaises(funds) == \E i \in DOMAIN funds : LoadOutcomes(funds)[i].outcome = "raised"

LoadedFundDfs(funds) ==
    LET appended == SelectSeq(LoadOutcomes(funds), LAMBDA o : o.outcome = "appended")
    IN  [i \in DOMAIN appended |-> appended[i].entry]

\* total_share += share for every share that is not None
RECURSIVE TotalShare(_)
TotalShare(funds) ==
    IF Len(funds) = 0 THEN 0
    ELSE (IF funds[1].share = None THEN 0 ELSE funds[1].share[1]) + TotalShare(Tail(funds))

\* lines 1581-1584: round(total_share, 2) != 100 and total_share > 0
ShareWarning(funds) ==
    IF TotalShare(funds) # 100 /\ TotalShare(funds) > 0
    THEN Some(TotalShare(funds)) ELSE None

\* ------------------------------------------------------------------------
\* update_graph_and_feedback : the aggregation, lines 1590-1600
\* ------------------------------------------------------------------------
\* the index of pd.concat(..., axis=1).sort_index() : the union, ascending
CombinedIndex(funds) ==
    Ascending(UNION {IndexSet(funds[i].df.rows) : i \in DOMAIN funds})

\* the column of one fund in combined_df, NaN where it has no row
Column(df, index) ==
    [k \in DOMAIN index |->
        IF index[k] \in IndexSet(df.rows)
        THEN df.rows[CHOOSE j \in DOMAIN df.rows : df.rows[j].t = index[k]].v
        ELSE NaN]

\* mutant: no forward fill
FFill_Missing(col) == col

\* ffill : a NaN takes the last value before it that is not NaN
FFill(col) ==
    [k \in DOMAIN col |->
        LET before == {j \in 1..k : ~IsNaN(col[j])}
        IN  IF before = {} THEN NaN ELSE col[SetMax(before)]]

\* mutant: no backward fill
BFill_Missing(col) == col

\* bfill : a NaN takes the first value after it that is not NaN
BFill(col) ==
    [k \in DOMAIN col |->
        LET after == {j \in k..Len(col) : ~IsNaN(col[j])}
        IN  IF after = {} THEN NaN ELSE col[SetMin(after)]]

Filled(df, index) == BFill(FFill(Column(df, index)))

\* fund['share'] / 100.0
Weight(share) == XDiv(Int2X(share), Int2X(100))

\* nav += combined_df[fund_id] * (fund['share'] / 100.0), for the columns
\* that are not all NaN
RECURSIVE NavValues(_, _, _)
NavValues(funds, index, i) ==
    IF i = 0 THEN [k \in DOMAIN index |-> Zero]
    ELSE LET acc == NavValues(funds, index, i - 1)
             col == Filled(funds[i].df, index)
         IN  IF \A k \in DOMAIN col : IsNaN(col[k]) THEN acc
             ELSE [k \in DOMAIN index |->
                      XAdd(acc[k], XMul(col[k], Weight(funds[i].share)))]

\* the NAV series of the aligned funds
PortfolioNav(funds) ==
    LET index == CombinedIndex(funds)
    IN  [k \in DOMAIN index |->
            [t |-> index[k], v |-> NavValues(funds, index, Len(funds))[k]]]

\* not nav.empty and nav.notna().any()
HasCurve(nav) == Len(nav) > 0 /\ \E k \in DOMAIN nav : ~IsNaN(nav[k].v)

\* portfolio_nav_data[key] = nav : a dict assignment
DictSet(dict, key, value) ==
    IF \E i \in DOMAIN dict : dict[i].key = key
    THEN [i \in DOMAIN dict |->
             IF dict[i].key = key THEN [key |-> key, value |-> value] ELSE dict[i]]
    ELSE Append(dict, [key |-> key, value |-> value])

\* lines 1648-1675: one metrics dictionary per entry whose metrics exist
AnalyticsData(nav_data) ==
    LET results == [i \in DOMAIN nav_data |->
                       [key     |-> nav_data[i].key,
                        metrics |-> calculate_investment_metrics(nav_data[i].value)]]
        present == SelectSeq(results, LAMBDA r : r.metrics # None)
    IN  [i \in DOMAIN present |->
            [portfolio_name |-> present[i].key, metrics |-> present[i].metrics[1]]]

\* ------------------------------------------------------------------------
\* Input domains
\* ------------------------------------------------------------------------
Times == 1..MaxTime

Vals == 0..MaxVal

\* the FundSeries over the timestamps T with the raw values f (section 3 of
\* the specification: timestamps unique and ascending)
RowsOf(T, f) ==
    [i \in 1..Cardinality(T) |-> [t |-> Ascending(T)[i], v |-> Int2X(f[Ascending(T)[i]])]]

SeriesOver(values) ==
    UNION {{RowsOf(T, f) : f \in [T -> values]} :
              T \in {S \in SUBSET Times : Cardinality(S) <= MaxLen}}

\* shares of the aligner's inputs: the aligner only carries them along
AlignShare(i) == 10 * i

\* the raw series of the aligner's inputs, the empty series included
RawSeries == SeriesOver(Vals)

\* the list that gives fund i the series choice[i]
FundList(choice) ==
    [i \in DOMAIN choice |-> [df    |-> [fund_id |-> i, rows |-> choice[i]],
                              share |-> AlignShare(i)]]

\* NAV values of the metrics inputs: tenths around 1.0, zero, +inf and NaN
NavVals == {Rat(n, 10) : n \in 9..12} \cup {Zero, PosInf, NaN}

\* the NAV series with the values choice on consecutive days
NavSeries(choice) == [i \in DOMAIN choice |-> [t |-> i, v |-> choice[i]]]

\* the NAV series 1.0, 1.01, 0.9898, 1.019494, 1.019494 whose one-period
\* returns are +0.01, -0.02, +0.03, 0.00
WinRateScenario ==
    NavSeries(<<One, Rat(101, 100), Rat(9898, 10000),
                Rat(1019494, 1000000), Rat(1019494, 1000000)>>)

\* two observations 365 days apart, 1.0 and then 1.21
OneYearScenario == <<[t |-> 1, v |-> One], [t |-> 366, v |-> Rat(121, 100)]>>


\* ------------------------------------------------------------------------
\* The form handed to update_graph_and_feedback
\* ------------------------------------------------------------------------
Row(t, v) == [t |-> t, v |-> v]

Table(kind, bad_time, rows) ==
    [kind |-> kind, bad_time |-> bad_time, numeric |-> TRUE, rows |-> rows]

\* a script that fails or prints nothing, a file that read_csv rejects
FailedTable == [kind |-> "fail", bad_time |-> FALSE, numeric |-> FALSE, rows |-> <<>>]

Fund(share, source, table) ==
    [share |-> share, source |-> source, fund_code |-> TRUE, table |-> table]

\* shares typed into the form, in percent
Shares == {40, 60, 100}

\* funds read from a csv file with the columns time and value, the values
\* positive; the empty file and the one-row file are among them
FileFunds ==
    {Fund(Some(sh), "file", Table("time", FALSE, rows)) :
        sh \in Shares, rows \in SeriesOver(1..MaxVal)}

ScriptBadTime ==
    Fund(Some(60), "script", Table("time", TRUE, <<Row(1, One), Row(2, Int2X(2))>>))

ScriptFailure == Fund(Some(60), "script", FailedTable)

ScriptHealthy ==
    Fund(Some(100), "script", Table("time", FALSE, <<Row(1, Int2X(2)), Row(3, One)>>))

FileZeroFirst ==
    Fund(Some(60), "file", Table("time", FALSE, <<Row(1, Zero), Row(2, One)>>))

FileBadTime ==
    Fund(Some(40), "file", Table("time", TRUE, <<Row(1, One), Row(2, Int2X(2))>>))

FileEmpty == Fund(Some(40), "file", Table("time", FALSE, <<>>))

FileSinglePoint == Fund(Some(100), "file", Table("time", FALSE, <<Row(2, One)>>))

FileHealthy ==
    Fund(Some(100), "file", Table("time", FALSE, <<Row(1, One), Row(2, Int2X(2))>>))

\* columns FSRQ and DWJZ, rows not in order, one cell blank
FsrqFile ==
    Fund(Some(40), "file",
         Table("fsrq", FALSE, <<Row(3, Int2X(2)), Row(1, NaN), Row(2, One)>>))

NoShare ==
    Fund(None, "file", Table("time", FALSE, <<Row(1, One), Row(2, Int2X(2))>>))

NoDataSource == Fund(Some(40), "none", FailedTable)

\* every value 0: the pre-normalisation 0/0 leaves no number in the column
FileAllZero ==
    Fund(Some(100), "file", Table("time", FALSE, <<Row(1, Zero), Row(2, Zero)>>))

\* columns time and value, the rows not in order of time
FileUnsorted ==
    Fund(Some(100), "file", Table("time", FALSE, <<Row(2, Int2X(2)), Row(1, One)>>))

\* the funds of the one-portfolio forms
PortfolioFunds ==
    FileFunds \cup {ScriptBadTime, ScriptFailure, ScriptHealthy, FileZeroFirst,
                    FileBadTime, FsrqFile, NoShare, NoDataSource, FileAllZero,
                    FileUnsorted}

\* the funds of the forms with several portfolios: the degenerate cases
\* next to a healthy fund
SiblingFunds ==
    {ScriptBadTime, ScriptFailure, FileZeroFirst, FileEmpty, FileSinglePoint,
     FileHealthy}

Names == {"A", "B"}

Portfolio(p_id, name, funds) == [p_id |-> p_id, name |-> name, funds |-> funds]

\* lists of 1..MaxFunds funds
FundLists(S) == UNION {[1..n -> S] : n \in 1..MaxFunds}

SiblingFundLists == FundLists(SiblingFunds)

\* ------------------------------------------------------------------------
\* State
\* ------------------------------------------------------------------------
VARIABLES
    fund_dfs,   \* the list handed to align_time_series_data
    impl,       \* which implementation was called: "none", "analytics", "overlay"
    ret         \* what the call returned

VARIABLES
    nav_arg,               \* the series handed to calculate_investment_metrics
    nav_series,            \* the local nav_series (reassigned by dropna)
    mpc,                   \* position in the function: "entry", "scan", "done"
    days,                  \* local, computed before the loop
    total_return,          \* local, not rounded
    max_drawdown,          \* local, not rounded
    win_rate,              \* local, not rounded
    annualized_return,     \* local, not rounded
    calmar_ratio,          \* local, not rounded
    pos,                   \* position of the loop in nav_changes
    consecutive_down,      \* loop variable
    max_consecutive_down,  \* loop variable
    metrics                \* the returned value, None or Some(dictionary)

alignVars == <<fund_dfs, impl, ret>>

localVars ==
    <<days, total_return, max_drawdown, win_rate, annualized_return, calmar_ratio>>

metricsVars ==
    <<nav_arg, nav_series, mpc, localVars, pos, consecutive_down, max_consecutive_down,
      metrics>>

VARIABLES
    n_clicks,            \* the click count of the button, 0 before any click
    portfolios,          \* the parsed form: a list of [p_id, name, funds]
    hpc,                 \* position in the callback: "called", "loop", "done", "raised"
    p_idx,               \* the portfolio the loop of line 1521 is at
    p_nav,               \* the local nav of the last iteration
    traces,              \* the curves of the figure
    feedback_messages,   \* one message per processed portfolio
    portfolio_nav_data,  \* dict: unique_portfolio_key -> nav
    analytics_data       \* the metrics dictionaries of the table

handlerVars ==
    <<n_clicks, portfolios, hpc, p_idx, p_nav, traces, feedback_messages,
      portfolio_nav_data, analytics_data>>

VARIABLES
    portfolio_data,        \* generate_normalized_chart: the portfolios with frames
    global_latest_start,   \* None, or Some(timestamp), NaT included
    normalized_fund_dfs,   \* the local list of the last iteration of the second loop
    returned_values        \* how many values the callback returned, 0 before

globalVars ==
    <<portfolio_data, global_latest_start, normalized_fund_dfs, returned_values>>

VARIABLES
    max_pages,           \* the argument of fetch_all_data
    responses,           \* what the server answers for each page, by page number
    fpc,                 \* position in fetch_all_data: "loop", "done"
    page_index,          \* the page the loop is at
    all_data,            \* the records collected so far, the returned list at "done"
    requests             \* the pages asked of the server, in the order of the calls

fetchVars == <<max_pages, responses, fpc, page_index, all_data, requests>>

vars == <<alignVars, metricsVars, handlerVars, globalVars, fetchVars>>

\* the state of a component that is not called
AlignIdle ==
    /\ fund_dfs = <<>>
    /\ impl = "none"
    /\ ret = Returned(<<>>, None)

HandlerIdle ==
    /\ n_clicks = 0
    /\ portfolios = <<>>
    /\ hpc = "idle"
    /\ p_idx = 0
    /\ p_nav = <<>>
    /\ traces = <<>>
    /\ feedback_messages = <<>>
    /\ portfolio_nav_data = <<>>
    /\ analytics_data = <<>>

GlobalIdle ==
    /\ portfolio_data = <<>>
    /\ global_latest_start = None
    /\ normalized_fund_dfs = <<>>
    /\ returned_values = 0

FetchIdle ==
    /\ max_pages = 0
    /\ responses = <<>>
    /\ fpc = "idle"
    /\ page_index = 0
    /\ all_data = <<>>
    /\ requests = <<>>

MetricsIdle ==
    /\ nav_arg = <<>>
    /\ nav_series = <<>>
    /\ mpc = "idle"
    /\ days = 0 /\ total_return = Zero /\ max_drawdown = Zero /\ win_rate = Zero
    /\ annualized_return = Zero /\ calmar_ratio = Zero
    /\ pos = 0
    /\ consecutive_down = 0
    /\ max_consecutive_down = 0
    /\ metrics = None

\* ------------------------------------------------------------------------
\* Specification of the aligner: one call on one input list
\* ------------------------------------------------------------------------
InitAlign ==
    /\ \E n \in 0..MaxFunds : \E choice \in [1..n -> RawSeries] :
          fund_dfs = FundList(choice)
    /\ impl = "none"
    /\ ret = Returned(<<>>, None)
    /\ MetricsIdle
    /\ HandlerIdle
    /\ GlobalIdle
    /\ FetchIdle

CallAnalyticsAlign ==
    /\ impl = "none"
    /\ impl' = "analytics"
    /\ ret' = align_time_series_data(fund_dfs)
    /\ fund_dfs' = AnalyticsInputAfter(fund_dfs)
    /\ UNCHANGED <<metricsVars, handlerVars, globalVars, fetchVars>>

CallOverlayAlign ==
    /\ impl = "none"
    /\ impl' = "overlay"
    /\ ret' = overlay_align_time_series_data(fund_dfs)
    /\ fund_dfs' = OverlayInputAfter(fund_dfs)
    /\ UNCHANGED <<metricsVars, handlerVars, globalVars, fetchVars>>

NextAlign == CallAnalyticsAlign \/ CallOverlayAlign

SpecAlign == InitAlign /\ [][NextAlign]_vars

\* ------------------------------------------------------------------------
\* Specification of the metrics engine: one call, the loop step by step
\* ------------------------------------------------------------------------
InitMetrics ==
    /\ \/ \E n \in 0..MaxNav : \E choice \in [1..n -> NavVals] :
             nav_arg = NavSeries(choice)
       \/ nav_arg = WinRateScenario
       \/ nav_arg = OneYearScenario
    /\ nav_series = nav_arg
    /\ mpc = "entry"
    /\ days = 0 /\ total_return = Zero /\ max_drawdown = Zero /\ win_rate = Zero
    /\ annualized_return = Zero /\ calmar_ratio = Zero
    /\ pos = 0
    /\ consecutive_down = 0
    /\ max_consecutive_down = 0
    /\ metrics = None
    /\ AlignIdle
    /\ HandlerIdle
    /\ GlobalIdle
    /\ FetchIdle

\* lines 165-194: one of the returns of None
MetricsReturnNone ==
    /\ mpc = "entry"
    /\ EarlyReturn(nav_series)
    /\ nav_series' = (IF Len(nav_series) < 2 THEN nav_series ELSE Cleaned(nav_series))
    /\ metrics' = None
    /\ mpc' = "done"
    /\ UNCHANGED <<nav_arg, localVars, pos, consecutive_down, max_consecutive_down,
                   alignVars, handlerVars, globalVars, fetchVars>>

\* lines 172-246: the series is cleaned, the loop starts
MetricsCompute ==
    /\ mpc = "entry"
    /\ ~EarlyReturn(nav_series)
    /\ nav_series' = Cleaned(nav_series)
    /\ days' = Locals(nav_series').days
    /\ total_return' = Locals(nav_series').total_return
    /\ max_drawdown' = Locals(nav_series').max_drawdown
    /\ win_rate' = Locals(nav_series').win_rate
    /\ annualized_return' \in AnnualizedReturns(nav_series', days')
    /\ calmar_ratio' = CalmarRatio(annualized_return', max_drawdown')
    /\ pos' = 1
    /\ consecutive_down' = 0
    /\ max_consecutive_down' = 0
    /\ mpc' = "scan"
    /\ UNCHANGED <<nav_arg, metrics, alignVars, handlerVars, globalVars, fetchVars>>

LoopStep ==
    /\ mpc = "scan"
    /\ pos <= Len(nav_series)
    /\ LET c == ScanStep([consecutive_down |-> consecutive_down,
                          max_consecutive_down |-> max_consecutive_down],
                         Diff(nav_series)[pos])
       IN  /\ consecutive_down' = c.consecutive_down
           /\ max_consecutive_down' = c.max_consecutive_down
    /\ pos' = pos + 1
    /\ UNCHANGED <<nav_arg, nav_series, mpc, localVars, metrics, alignVars, handlerVars,
                   globalVars, fetchVars>>

\* lines 248-249: pd.isna(change), continue
LoopSkipNaN == LoopStep /\ IsNaN(Diff(nav_series)[pos])

\* lines 250-252: a down step
LoopDown == LoopStep /\ ~IsNaN(Diff(nav_series)[pos]) /\ IsDown(Diff(nav_series)[pos])

\* lines 253-254: any other step
LoopReset == LoopStep /\ ~IsNaN(Diff(nav_series)[pos]) /\ ~IsDown(Diff(nav_series)[pos])

\* lines 259-280: the dictionary is built and returned
MetricsReturn ==
    /\ mpc = "scan"
    /\ pos > Len(nav_series)
    /\ metrics' = Some(MetricsRecord(nav_series,
                            [days |-> days, total_return |-> total_return,
                             max_drawdown |-> max_drawdown, win_rate |-> win_rate],
                            max_consecutive_down)
                       @@ RatioFields(annualized_return, calmar_ratio))
    /\ mpc' = "done"
    /\ UNCHANGED <<nav_arg, nav_series, localVars, pos, consecutive_down,
                   max_consecutive_down, alignVars, handlerVars, globalVars, fetchVars>>

NextMetrics ==
    \/ MetricsReturnNone
    \/ MetricsCompute
    \/ LoopSkipNaN
    \/ LoopDown
    \/ LoopReset
    \/ MetricsReturn

SpecMetrics == InitMetrics /\ [][NextMetrics]_vars

\* ------------------------------------------------------------------------
\* Specification of update_graph_and_feedback: one call of the callback,
\* the loop over the portfolios step by step.  fund_dfs, impl and ret are
\* the list the iteration built and what align_time_series_data returned
\* for it.
\* ------------------------------------------------------------------------
InitHandler ==
    /\ \/ /\ n_clicks = 1
          /\ \E n \in 1..MaxFunds : \E choice \in [1..n -> PortfolioFunds] :
                portfolios = <<Portfolio(1, "A", choice)>>
       \/ /\ n_clicks \in 0..1
          /\ \E n \in 1..MaxPortfolios :
                \E choice \in [1..n -> SiblingFundLists], names \in [1..n -> Names] :
                   /\ names[1] = "A"
                   /\ portfolios = [i \in 1..n |-> Portfolio(i, names[i], choice[i])]
    /\ hpc = "called"
    /\ p_idx = 1
    /\ p_nav = <<>>
    /\ traces = <<>>
    /\ feedback_messages = <<>>
    /\ portfolio_nav_data = <<>>
    /\ analytics_data = <<>>
    /\ AlignIdle
    /\ MetricsIdle
    /\ GlobalIdle
    /\ FetchIdle

\* lines 1472-1474: nothing was clicked
ReturnNotClicked ==
    /\ hpc = "called"
    /\ n_clicks = 0
    /\ hpc' = "done"
    /\ UNCHANGED <<n_clicks, portfolios, p_idx, p_nav, traces, feedback_messages,
                   portfolio_nav_data, analytics_data, alignVars, metricsVars, globalVars,
                   fetchVars>>

InLoop == (hpc = "called" /\ n_clicks # 0) \/ hpc = "loop"

\* lines 1602-1605: the date the curve is labelled with
AlignedTo(stats) ==
    IF stats # None /\ stats[1].aligned THEN Some(stats[1].latest_start) ELSE None

\* lines 1521-1627: one iteration of the loop over the portfolios
ProcessPortfolio ==
    /\ InLoop
    /\ p_idx <= Len(portfolios)
    /\ LET p == portfolios[p_idx]
           unique_portfolio_key == <<p.name, p.p_id>>
       IN  IF LoadRaises(p.funds)
           THEN \* the exception leaves the callback
                /\ hpc' = "raised"
                /\ UNCHANGED <<p_idx, p_nav, traces, feedback_messages,
                               portfolio_nav_data, alignVars>>
           ELSE /\ hpc' = "loop"
                /\ p_idx' = p_idx + 1
                /\ fund_dfs' = OverlayInputAfter(LoadedFundDfs(p.funds))
                /\ impl' = (IF Len(LoadedFundDfs(p.funds)) > 0 THEN "overlay" ELSE "none")
                /\ ret' = (IF Len(LoadedFundDfs(p.funds)) > 0
                           THEN overlay_align_time_series_data(LoadedFundDfs(p.funds))
                           ELSE Returned(<<>>, None))
                /\ p_nav' = (IF Len(ret'.list) > 0 THEN PortfolioNav(ret'.list) ELSE <<>>)
                /\ traces' =
                      (IF HasCurve(p_nav')
                       THEN Append(traces, [name       |-> p.name,
                                            aligned_to |-> AlignedTo(ret'.stats),
                                            x_y        |-> p_nav'])
                       ELSE traces)
                /\ portfolio_nav_data' =
                      (IF HasCurve(p_nav')
                       THEN DictSet(portfolio_nav_data, unique_portfolio_key, p_nav')
                       ELSE portfolio_nav_data)
                /\ feedback_messages' =
                      Append(feedback_messages,
                             [p_id          |-> p.p_id,
                              share_warning |-> ShareWarning(p.funds),
                              aligned_to    |-> (IF HasCurve(p_nav')
                                                 THEN AlignedTo(ret'.stats) ELSE None)])
    /\ UNCHANGED <<n_clicks, portfolios, analytics_data, metricsVars, globalVars, fetchVars>>

\* lines 1628-1704: the analytics are computed, the outputs returned
ReturnResponse ==
    /\ InLoop
    /\ p_idx > Len(portfolios)
    /\ analytics_data' = AnalyticsData(portfolio_nav_data)
    /\ hpc' = "done"
    /\ UNCHANGED <<n_clicks, portfolios, p_idx, p_nav, traces, feedback_messages,
                   portfolio_nav_data, alignVars, metricsVars, globalVars, fetchVars>>

NextHandler == ReturnNotClicked \/ ProcessPortfolio \/ ReturnResponse

SpecHandler == InitHandler /\ [][NextHandler]_vars

\* ------------------------------------------------------------------------
\* generate_normalized_chart, overlay.py : the operators
\* ------------------------------------------------------------------------
\* the missing timestamp, index.min() of an empty index; no row of a table
\* has it, and every comparison with it is false
NaT == 0

After(a, b) == a # NaT /\ b # NaT /\ a > b

\* the entries of the first loop keep the raw values; numeric tells whether
\* the value column holds numbers
GlobalAppended(fund_id, rows, share, numeric) ==
    [outcome |-> "appended",
     entry   |-> [df      |-> [fund_id |-> fund_id, rows |-> rows],
                  share   |-> share,
                  numeric |-> numeric]]

\* lines 1118-1130: the script branch, outside any try
GlobalLoadFromScript(fund_id, fund) ==
    IF ~fund.fund_code THEN Skipped
    ELSE IF fund.table.kind # "time" THEN Skipped
    ELSE IF fund.table.bad_time THEN Unhandled
    ELSE IF ~fund.table.numeric \/ Len(fund.table.rows) = 0 THEN Skipped
    ELSE GlobalAppended(fund_id, fund.table.rows, fund.share[1], TRUE)

\* lines 1131-1152: the file branch, inside try/except/continue; nothing is
\* divided here, so an empty table and a text column are appended
GlobalLoadFromFile(fund_id, fund) ==
    IF fund.table.kind = "time"
    THEN IF fund.table.bad_time THEN Skipped
         ELSE GlobalAppended(fund_id, fund.table.rows, fund.share[1], fund.table.numeric)
    ELSE IF fund.table.kind = "fsrq"
    THEN IF fund.table.bad_time THEN Skipped
         ELSE GlobalAppended(fund_id,
                  IF fund.table.numeric
                  THEN SelectSeq(SortIndex(fund.table.rows), LAMBDA r : ~IsNaN(r.v))
                  ELSE <<>>,
                  fund.share[1], TRUE)
    ELSE Skipped

\* lines 1108-1152: one iteration of the loop over the funds
GlobalLoadFund(fund_id, fund) ==
    IF fund.source = "none" \/ fund.share = None THEN Skipped
    ELSE IF fund.source = "script" THEN GlobalLoadFromScript(fund_id, fund)
    ELSE IF fund.source = "file" THEN GlobalLoadFromFile(fund_id, fund)
    ELSE Skipped

GlobalLoadOutcomes(funds) == [i \in DOMAIN funds |-> GlobalLoadFund(i, funds[i])]

GlobalLoadRaises(funds) ==
    \E i \in DOMAIN funds : GlobalLoadOutcomes(funds)[i].outcome = "raised"

GlobalLoadedFundDfs(funds) ==
    LET appended == SelectSeq(GlobalLoadOutcomes(funds), LAMBDA o : o.outcome = "appended")
    IN  [i \in DOMAIN appended |-> appended[i].entry]

\* lines 1156-1158: combined_df.index.min(), the earliest timestamp of the
\* funds of the portfolio
PortfolioStart(list) ==
    LET index == UNION {IndexSet(list[i].df.rows) : i \in DOMAIN list}
    IN  IF index = {} THEN NaT ELSE SetMin(index)

\* lines 1161-1162
LaterStart(latest, portfolio_start) ==
    IF latest = None \/ After(portfolio_start, latest[1])
    THEN Some(portfolio_start) ELSE latest

\* line 1189: df[df.index >= global_latest_start]
GlobalTruncated(entry, start) ==
    IF start = NaT THEN <<>> ELSE Truncate(entry.df.rows, start)

\* line 1195 divides a text column: TypeError, outside any try
NormalizeRaises(list, start) ==
    \E i \in DOMAIN list : ~list[i].numeric /\ Len(GlobalTruncated(list[i], start)) > 0

\* lines 1184-1199: the cut frames, rebased when the first value is not 0,
\* appended either way; the frames left empty by the cut are not appended
GlobalNormalizedFundDfs(list, start) ==
    LET cut == [i \in DOMAIN list |->
                   [df    |-> [fund_id |-> list[i].df.fund_id,
                               rows    |-> GlobalTruncated(list[i], start)],
                    share |-> list[i].share]]
        kept == SelectSeq(cut, LAMBDA fund : ~Empty(fund.df))
    IN  [i \in DOMAIN kept |->
            [df |-> OverlayRebasedDf(kept[i].df), share |-> kept[i].share]]

\* lines 1262-1264: the intersection of the indexes of the stored curves
CommonIndex(nav_data) ==
    {t \in IndexSet(nav_data[1].value) :
        \A i \in DOMAIN nav_data : t \in IndexSet(nav_data[i].value)}

\* lines 1266-1275: the metrics of every stored curve on the common index
GlobalAnalyticsData(nav_data) ==
    LET common == CommonIndex(nav_data)
        results == [i \in DOMAIN nav_data |->
                       [key     |-> nav_data[i].key,
                        metrics |-> calculate_investment_metrics(
                                        SelectSeq(nav_data[i].value,
                                                  LAMBDA r : r.t \in common))]]
        present == SelectSeq(results, LAMBDA r : r.metrics # None)
    IN  [i \in DOMAIN present |->
            [portfolio_name |-> present[i].key, metrics |-> present[i].metrics[1]]]

\* the funds of the forms with several portfolios
GlobalFunds ==
    {ScriptHealthy, FileSinglePoint, FileHealthy, FileZeroFirst, ScriptBadTime}

GlobalFundLists == FundLists(GlobalFunds)

\* ------------------------------------------------------------------------
\* Specification of generate_normalized_chart: one call of the callback,
\* its two loops step by step
\* ------------------------------------------------------------------------
InitGlobal ==
    /\ \/ /\ n_clicks \in 0..1
          /\ \E n \in 1..MaxFunds : \E choice \in [1..n -> PortfolioFunds] :
                portfolios = <<Portfolio(1, "A", choice)>>
       \/ /\ n_clicks = 1
          /\ \E n \in 2..MaxPortfolios :
                \E choice \in [1..n -> GlobalFundLists], names \in [1..n -> Names] :
                   /\ names[1] = "A"
                   /\ portfolios = [i \in 1..n |-> Portfolio(i, names[i], choice[i])]
    /\ hpc = "called"
    /\ p_idx = 1
    /\ p_nav = <<>>
    /\ traces = <<>>
    /\ feedback_messages = <<>>
    /\ portfolio_nav_data = <<>>
    /\ analytics_data = <<>>
    /\ portfolio_data = <<>>
    /\ global_latest_start = None
    /\ normalized_fund_dfs = <<>>
    /\ returned_values = 0
    /\ AlignIdle
    /\ MetricsIdle
    /\ FetchIdle

\* lines 1052-1053: nothing was clicked
GlobalReturnNotClicked ==
    /\ hpc = "called"
    /\ n_clicks = 0
    /\ hpc' = "done"
    /\ returned_values' = 4
    /\ UNCHANGED <<n_clicks, portfolios, p_idx, p_nav, traces, feedback_messages,
                   portfolio_nav_data, analytics_data, portfolio_data,
                   global_latest_start, normalized_fund_dfs, alignVars, metricsVars,
                   fetchVars>>

\* lines 1104-1169: one iteration of the first loop
CollectPortfolio ==
    /\ (hpc = "called" /\ n_clicks # 0) \/ hpc = "collect"
    /\ p_idx <= Len(portfolios)
    /\ LET p == portfolios[p_idx]
           loaded == GlobalLoadedFundDfs(p.funds)
       IN  IF GlobalLoadRaises(p.funds)
           THEN \* the exception leaves the callback
                /\ hpc' = "raised"
                /\ UNCHANGED <<p_idx, fund_dfs, portfolio_data, global_latest_start>>
           ELSE /\ hpc' = "collect"
                /\ p_idx' = p_idx + 1
                /\ fund_dfs' = loaded
                /\ portfolio_data' =
                      (IF Len(loaded) > 0
                       THEN Append(portfolio_data,
                                   [portfolio_id   |-> p.p_id,
                                    portfolio_name |-> p.name,
                                    fund_dfs       |-> loaded,
                                    start_time     |-> PortfolioStart(loaded)])
                       ELSE portfolio_data)
                /\ global_latest_start' =
                      (IF Len(loaded) > 0
                       THEN LaterStart(global_latest_start, PortfolioStart(loaded))
                       ELSE global_latest_start)
    /\ UNCHANGED <<n_clicks, portfolios, p_nav, traces, feedback_messages,
                   portfolio_nav_data, analytics_data, normalized_fund_dfs,
                   returned_values, impl, ret, metricsVars, fetchVars>>

CollectDone == hpc = "collect" /\ p_idx > Len(portfolios)

\* lines 1171-1172: no portfolio has a frame; two values are returned
GlobalReturnEmpty ==
    /\ CollectDone
    /\ Len(portfolio_data) = 0 \/ global_latest_start = None
    /\ hpc' = "done"
    /\ returned_values' = 2
    /\ UNCHANGED <<n_clicks, portfolios, p_idx, p_nav, traces, feedback_messages,
                   portfolio_nav_data, analytics_data, portfolio_data,
                   global_latest_start, normalized_fund_dfs, alignVars, metricsVars,
                   fetchVars>>

\* lines 1174-1177: the start is printed with strftime, which NaT refuses
BeginNormalize ==
    /\ CollectDone
    /\ ~(Len(portfolio_data) = 0 \/ global_latest_start = None)
    /\ hpc' = (IF global_latest_start[1] = NaT THEN "raised" ELSE "normalize")
    /\ p_idx' = 1
    /\ UNCHANGED <<n_clicks, portfolios, p_nav, traces, feedback_messages,
                   portfolio_nav_data, analytics_data, portfolio_data,
                   global_latest_start, normalized_fund_dfs, returned_values,
                   alignVars, metricsVars, fetchVars>>

\* lines 1178-1230: one iteration of the second loop
NormalizePortfolio ==
    /\ hpc = "normalize"
    /\ p_idx <= Len(portfolio_data)
    /\ LET pdata == portfolio_data[p_idx]
           start == global_latest_start[1]
       IN  IF NormalizeRaises(pdata.fund_dfs, start)
           THEN /\ hpc' = "raised"
                /\ UNCHANGED <<p_idx, fund_dfs, normalized_fund_dfs, p_nav, traces,
                               portfolio_nav_data>>
           ELSE /\ hpc' = "normalize"
                /\ p_idx' = p_idx + 1
                /\ fund_dfs' = pdata.fund_dfs
                /\ normalized_fund_dfs' = GlobalNormalizedFundDfs(pdata.fund_dfs, start)
                /\ p_nav' = (IF Len(normalized_fund_dfs') > 0
                             THEN PortfolioNav(normalized_fund_dfs') ELSE <<>>)
                /\ traces' =
                      (IF HasCurve(p_nav')
                       THEN Append(traces, [name       |-> pdata.portfolio_name,
                                            aligned_to |-> global_latest_start,
                                            x_y        |-> p_nav'])
                       ELSE traces)
                /\ portfolio_nav_data' =
                      (IF HasCurve(p_nav')
                       THEN DictSet(portfolio_nav_data, pdata.portfolio_name, p_nav')
                       ELSE portfolio_nav_data)
    /\ UNCHANGED <<n_clicks, portfolios, feedback_messages, analytics_data,
                   portfolio_data, global_latest_start, returned_values, impl, ret,
                   metricsVars, fetchVars>>

\* lines 1232-1298: the analytics on the common index, the four outputs;
\* line 1265 prints common_index.min() with strftime outside any try
GlobalReturnResponse ==
    /\ hpc = "normalize"
    /\ p_idx > Len(portfolio_data)
    /\ IF Len(portfolio_nav_data) > 0 /\ CommonIndex(portfolio_nav_data) = {}
       THEN /\ hpc' = "raised"
            /\ UNCHANGED <<analytics_data, returned_values>>
       ELSE /\ hpc' = "done"
            /\ analytics_data' = (IF Len(portfolio_nav_data) > 0
                                  THEN GlobalAnalyticsData(portfolio_nav_data)
                                  ELSE <<>>)
            /\ returned_values' = 4
    /\ UNCHANGED <<n_clicks, portfolios, p_idx, p_nav, traces, feedback_messages,
                   portfolio_nav_data, portfolio_data, global_latest_start,
                   normalized_fund_dfs, alignVars, metricsVars, fetchVars>>

NextGlobal ==
    \/ GlobalReturnNotClicked
    \/ CollectPortfolio
    \/ GlobalReturnEmpty
    \/ BeginNormalize
    \/ NormalizePortfolio
    \/ GlobalReturnResponse

SpecGlobal == InitGlobal /\ [][NextGlobal]_vars

\* ------------------------------------------------------------------------
\* FundDataFetcher.fetch_all_data, DataFetcher.py
\* ------------------------------------------------------------------------
\* the largest max_pages of the model
MaxPagesLimit == 3

\* 'pageSize': 20 of the request, and the 20 of the last-page test
PageSize == 20

\* get_page_data returns None: the request raised, or the body did not parse
NoPage == [kind |-> "none", has_list |-> FALSE, records |-> <<>>]

\* a parsed body without the key 'Data'
NoDataKey == [kind |-> "no_data_key", has_list |-> FALSE, records |-> <<>>]

\* page_data['Data'] without the key 'LSJZList': .get gives []
NoList == [kind |-> "data", has_list |-> FALSE, records |-> <<>>]

\* page_data['Data']['LSJZList'] with n records of page p
DataPage(p, n) ==
    [kind |-> "data", has_list |-> TRUE, records |-> [k \in 1..n |-> <<p, k>>]]

\* the answers the server can give for page p; the body is the object the
\* endpoint serves, so 'Data', where present, is an object
PageResponses(p) ==
    <<NoPage, NoDataKey, NoList, DataPage(p, 0), DataPage(p, 1),
      DataPage(p, PageSize - 1), DataPage(p, PageSize)>>

\* get_page_data(page_index)
get_page_data(p) == responses[p]

\* page_data['Data'].get('LSJZList', [])
LsjzList(page_data) == IF page_data.has_list THEN page_data.records ELSE <<>>

\* not page_data or 'Data' not in page_data
LacksData(page_data) == page_data.kind # "data"

\* mutant: no page is taken for the last one
IsLastPage_Never(lsjz_list) == FALSE

\* len(lsjz_list) < 20
IsLastPage(lsjz_list) == Len(lsjz_list) < PageSize

\* the state at the first test of the while loop
InitFetch ==
    /\ max_pages \in 0..MaxPagesLimit
    /\ \E choice \in [1..max_pages -> DOMAIN PageResponses(1)] :
          responses = [p \in 1..max_pages |-> PageResponses(p)[choice[p]]]
    /\ fpc = "loop"
    /\ page_index = 1
    /\ all_data = <<>>
    /\ requests = <<>>
    /\ AlignIdle
    /\ MetricsIdle
    /\ HandlerIdle
    /\ GlobalIdle

\* line 95: the page is requested
Requested ==
    /\ fpc = "loop"
    /\ page_index <= max_pages
    /\ requests' = Append(requests, page_index)

\* lines 97-98: no page, or a page without 'Data': break, return all_data
FetchBreakNoData ==
    /\ Requested
    /\ LacksData(get_page_data(page_index))
    /\ fpc' = "done"
    /\ UNCHANGED <<max_pages, responses, page_index, all_data, alignVars, metricsVars,
                   handlerVars, globalVars>>

\* lines 100-102: an empty list: break, return all_data
FetchBreakEmpty ==
    /\ Requested
    /\ ~LacksData(get_page_data(page_index))
    /\ Len(LsjzList(get_page_data(page_index))) = 0
    /\ fpc' = "done"
    /\ UNCHANGED <<max_pages, responses, page_index, all_data, alignVars, metricsVars,
                   handlerVars, globalVars>>

\* lines 104-108: the records are appended, the page is short: break
FetchLastPage ==
    /\ Requested
    /\ ~LacksData(get_page_data(page_index))
    /\ Len(LsjzList(get_page_data(page_index))) > 0
    /\ IsLastPage(LsjzList(get_page_data(page_index)))
    /\ all_data' = all_data \o LsjzList(get_page_data(page_index))
    /\ fpc' = "done"
    /\ UNCHANGED <<max_pages, responses, page_index, alignVars, metricsVars,
                   handlerVars, globalVars>>

\* lines 104-110: the records are appended, the next page is due
FetchFullPage ==
    /\ Requested
    /\ ~LacksData(get_page_data(page_index))
    /\ Len(LsjzList(get_page_data(page_index))) > 0
    /\ ~IsLastPage(LsjzList(get_page_data(page_index)))
    /\ all_data' = all_data \o LsjzList(get_page_data(page_index))
    /\ page_index' = page_index + 1
    /\ UNCHANGED <<max_pages, responses, fpc, alignVars, metricsVars, handlerVars,
                   globalVars>>

\* lines 94 and 112: the loop test fails, all_data is returned
FetchReturn ==
    /\ fpc = "loop"
    /\ page_index > max_pages
    /\ fpc' = "done"
    /\ UNCHANGED <<max_pages, responses, page_index, all_data, requests, alignVars,
                   metricsVars, handlerVars, globalVars>>

NextFetch ==
    \/ FetchBreakNoData
    \/ FetchBreakEmpty
    \/ FetchLastPage
    \/ FetchFullPage
    \/ FetchReturn

SpecFetch == InitFetch /\ [][NextFetch]_vars

\* the call is not suspended for ever: each request returns (timeout = 10)
SpecFetchFair == SpecFetch /\ WF_vars(NextFetch)

\* ========================================================================
\* Properties
\* ========================================================================
\* the timestamps of a series, and its value at its earliest timestamp
FirstTimestamp(rows) == SetMin(IndexSet(rows))

ValueAtFirstTimestamp(rows) ==
    rows[CHOOSE j \in DOMAIN rows : rows[j].t = FirstTimestamp(rows)].v

AllNonEmpty(list) == \A i \in DOMAIN list : ~Empty(list[i].df)

\* dn : the maximum of the first timestamps of the input series
Dn(list) ==
    CHOOSE d \in {FirstTimestamp(list[i].df.rows) : i \in DOMAIN list} :
        \A i \in DOMAIN list : FirstTimestamp(list[i].df.rows) <= d

\* the returned entry of input fund i, if any
ReturnedOf(i) == {j \in DOMAIN ret.list : ret.list[j].df.fund_id = i}

\* C2: for a non-empty list of non-empty series, either implementation
\* reports latest_start = dn, the maximum first timestamp, and no returned
\* series has a timestamp before dn.
C2_AlignedStartIsMaximum ==
    (impl # "none" /\ Len(fund_dfs) > 0 /\ AllNonEmpty(fund_dfs)) =>
        /\ ~ret.raised
        /\ Len(ret.stats) = 1
        /\ ret.stats[1].latest_start = Dn(fund_dfs)
        /\ \A j \in DOMAIN ret.list :
              \A k \in DOMAIN ret.list[j].df.rows :
                  ret.list[j].df.rows[k].t >= Dn(fund_dfs)

\* two funds with different starts: the report names the later start and the
\* earlier fund lost observations
C2_Witness ==
    /\ impl # "none"
    /\ Len(fund_dfs) = 2 /\ AllNonEmpty(fund_dfs)
    /\ FirstTimestamp(fund_dfs[1].df.rows) < FirstTimestamp(fund_dfs[2].df.rows)
    /\ Len(ret.stats) = 1
    /\ ret.stats[1].latest_start = FirstTimestamp(fund_dfs[2].df.rows)
    /\ Len(ret.list) = 2
    /\ Len(ret.list[1].df.rows) < Len(fund_dfs[1].df.rows)

\* what is left of input fund i after the cut at the reported latest_start
Cut(i) == Truncate(fund_dfs[i].df.rows, ret.stats[1].latest_start)

\* C3: every series returned by the analytics aligner has value 1.0 at its
\* first retained timestamp, with and without truncation; a series that
\* survives the cut and is not returned had base value 0.
C3_RebaseIdentity ==
    (impl = "analytics" /\ ~ret.raised) =>
        /\ \A j \in DOMAIN ret.list :
              ~Empty(ret.list[j].df) => ValueAtFirstTimestamp(ret.list[j].df.rows) = One
        /\ Len(ret.stats) = 1 =>
              \A i \in DOMAIN fund_dfs :
                  (Cut(i) # <<>> /\ ReturnedOf(i) = {}) => ValueAtFirstTimestamp(Cut(i)) = Zero

\* a truncated series whose first retained raw value is 2 comes back as 1.0
C3_Witness ==
    /\ impl = "analytics" /\ ~ret.raised
    /\ Len(ret.stats) = 1 /\ ret.stats[1].aligned
    /\ \E i \in DOMAIN fund_dfs :
          /\ Len(Cut(i)) < Len(fund_dfs[i].df.rows)
          /\ Cut(i) # <<>>
          /\ ValueAtFirstTimestamp(Cut(i)) = Int2X(2)
          /\ \E j \in ReturnedOf(i) : ValueAtFirstTimestamp(ret.list[j].df.rows) = One

\* the rows of a series divided by its value at its earliest timestamp
Rebased(rows) ==
    [k \in DOMAIN rows |->
        [t |-> rows[k].t, v |-> XDiv(rows[k].v, ValueAtFirstTimestamp(rows))]]

\* C4: in the analytics aligner a series whose value at its first retained
\* timestamp is 0 is left out of the returned list, in both branches; the
\* call does not fail for it, and every other retained series is returned
\* rebased with its share.
C4_ZeroBaseIsSkipped ==
    impl = "analytics" =>
        /\ AllNonEmpty(fund_dfs) => ~ret.raised
        /\ (~ret.raised /\ Len(ret.stats) = 1) =>
              \A i \in DOMAIN fund_dfs :
                  Cut(i) # <<>> =>
                      IF ValueAtFirstTimestamp(Cut(i)) = Zero
                      THEN ReturnedOf(i) = {}
                      ELSE \E j \in DOMAIN ret.list :
                              /\ ReturnedOf(i) = {j}
                              /\ ret.list[j].share = fund_dfs[i].share
                              /\ ret.list[j].df.rows = Rebased(Cut(i))

\* fund 1 has base 0 and is skipped, fund 2 is returned rebased
C4_Witness ==
    /\ impl = "analytics" /\ ~ret.raised
    /\ Len(fund_dfs) = 2 /\ Len(ret.stats) = 1
    /\ Cut(1) # <<>> /\ ValueAtFirstTimestamp(Cut(1)) = Zero
    /\ Len(ret.list) = 1
    /\ ret.list[1].df.fund_id = 2
    /\ ret.list[1].df.rows = Rebased(Cut(2))


\* ------------------------------------------------------------------------
\* Metrics engine
\* ------------------------------------------------------------------------
\* the valid points of the argument
ValidPoints(nav) == SelectSeq(nav, LAMBDA r : r.v # NaN)

\* C6: a series that is empty or has fewer than 2 valid points, a
\* single-point series in particular, makes calculate_investment_metrics
\* return None: the call ends without entering the computation.
C6_InsufficientDataGivesNone ==
    (mpc \in {"scan", "done"} /\ Len(ValidPoints(nav_arg)) < 2) =>
        (mpc = "done" /\ metrics = None)

\* three points of which two are missing: cleaned to one point, None
C6_Witness ==
    /\ mpc = "done" /\ metrics = None
    /\ Len(nav_arg) = 3
    /\ Len(ValidPoints(nav_arg)) = 1

PositiveSeries(nav) ==
    \A i \in DOMAIN nav : IsFinite(nav[i].v) /\ nav[i].v[1] > 0

\* the greatest of a non-empty set of finite values, and the least
Greatest(S) == CHOOSE m \in S : \A x \in S : ~XLt(m, x)

Least(S) == CHOOSE m \in S : \A x \in S : ~XLt(x, m)

\* (min over t of nav[t] / max(nav[0..t]) - 1) * 100
DrawdownFormula(nav) ==
    LET peak(t) == Greatest({nav[u].v : u \in 1..t})
        ratio == Least({XDiv(nav[t].v, peak(t)) : t \in DOMAIN nav})
    IN  XMul(XSub(ratio, One), Int2X(100))

DrawdownScenario == NavSeries(<<One, Rat(12, 10), Rat(9, 10), Rat(11, 10)>>)

\* C7: for a series of positive values with at least 2 points max_drawdown
\* is (min_t nav[t] / max(nav[0..t]) - 1) * 100, it is never positive, the
\* dictionary carries it rounded to 2 decimals, and 1.0, 1.2, 0.9, 1.1
\* gives -25.00.
C7_MaxDrawdown ==
    (mpc \in {"scan", "done"} /\ Len(nav_arg) >= 2 /\ PositiveSeries(nav_arg)) =>
        /\ max_drawdown = DrawdownFormula(nav_arg)
        /\ ~XLt(Zero, max_drawdown)
        /\ mpc = "done" =>
              /\ Len(metrics) = 1
              /\ metrics[1].max_drawdown = Round(DrawdownFormula(nav_arg), 100)
              /\ ~XLt(Zero, metrics[1].max_drawdown)
              /\ nav_arg = DrawdownScenario => metrics[1].max_drawdown = Int2X(-25)

C7_Witness ==
    /\ mpc = "done"
    /\ nav_arg = DrawdownScenario
    /\ max_drawdown = Int2X(-25)
    /\ Len(metrics) = 1 /\ metrics[1].max_drawdown = Int2X(-25)

\* the function is past its returns of None: in the loop, or returned a
\* dictionary
Computed == mpc = "scan" \/ (mpc = "done" /\ Len(metrics) = 1)

\* step j of a series (from point j - 1 to point j) is a down step
DownStep(nav, j) == j >= 2 /\ XLt(nav[j].v, nav[j - 1].v)

\* the number of consecutive down steps that end with step j
RunEndingAt(nav, j) ==
    Cardinality({r \in 1..j : \A i \in (j - r + 1)..j : DownStep(nav, i)})

LongestDownRun(nav) ==
    SetMax({0} \cup {RunEndingAt(nav, j) : j \in DOMAIN nav})

\* C8: whenever metrics are computed for a series of at least 2 points,
\* max_consecutive_down is the length of the longest run of consecutive
\* down steps; after a flat or rising step the running count is 0, and the
\* running count never exceeds the recorded maximum.
C8_MaxConsecutiveDown ==
    /\ (mpc = "done" /\ Len(nav_arg) >= 2 /\ PositiveSeries(nav_arg)) => Len(metrics) = 1
    /\ (Computed /\ Len(nav_series) >= 2) =>
          /\ consecutive_down <= max_consecutive_down
          /\ consecutive_down = RunEndingAt(nav_series, pos - 1)
          /\ (pos >= 3 /\ ~DownStep(nav_series, pos - 1)) => consecutive_down = 0
          /\ mpc = "done" =>
                metrics[1].max_consecutive_down = LongestDownRun(nav_series)

\* two down steps, then a flat step: the maximum stays 2, the count is reset
C8_Witness ==
    /\ mpc = "done" /\ Len(metrics) = 1
    /\ Len(nav_series) = 4
    /\ DownStep(nav_series, 2) /\ DownStep(nav_series, 3)
    /\ nav_series[4].v = nav_series[3].v
    /\ consecutive_down = 0
    /\ metrics[1].max_consecutive_down = 2

\* the steps with a defined one-period return, and those that gain
DefinedSteps(nav) ==
    {j \in 2..Len(nav) : XSub(XDiv(nav[j].v, nav[j - 1].v), One) # NaN}

GainSteps(nav) == {j \in DefinedSteps(nav) : XLt(nav[j - 1].v, nav[j].v)}

\* C9: win_rate is 100 * (returns > 0) / (returns), a return of 0 is no
\* win; the dictionary carries it rounded to 2 decimals, and the returns
\* +0.01, -0.02, +0.03, 0.00 give 50.
C9_WinRate ==
    /\ (mpc = "done" /\ nav_arg = WinRateScenario) =>
          /\ Returns(nav_arg) = <<Rat(1, 100), Rat(-2, 100), Rat(3, 100), Zero>>
          /\ Len(metrics) = 1 /\ metrics[1].win_rate = Int2X(50)
    /\ Computed =>
          /\ win_rate = XDiv(Int2X(100 * Cardinality(GainSteps(nav_series))),
                             Int2X(Cardinality(DefinedSteps(nav_series))))
          /\ mpc = "done" => metrics[1].win_rate = Round(win_rate, 100)

C9_Witness ==
    /\ mpc = "done"
    /\ nav_arg = WinRateScenario
    /\ win_rate = Int2X(50)
    /\ Len(metrics) = 1 /\ metrics[1].win_rate = Int2X(50)

\* ------------------------------------------------------------------------
\* The callback
\* ------------------------------------------------------------------------
\* an iteration of the loop has run and aggregated the list ret.list
Aggregated == hpc \in {"loop", "done"} /\ p_idx > 1 /\ Len(ret.list) > 0

ValueAt(rows, t) == rows[CHOOSE j \in DOMAIN rows : rows[j].t = t].v

\* every cell of every retained series holds a number
AllObserved(list) ==
    \A i \in DOMAIN list : \A k \in DOMAIN list[i].df.rows : ~IsNaN(list[i].df.rows[k].v)

UnionOfTimestamps(list) == UNION {IndexSet(list[i].df.rows) : i \in DOMAIN list}

\* value_i(t) : the fund's latest own observation at or before t, or its
\* earliest observation when it has none at or before t
ObservationFor(rows, t) ==
    LET before == {u \in IndexSet(rows) : u <= t}
    IN  ValueAt(rows, IF before # {} THEN SetMax(before) ELSE SetMin(IndexSet(rows)))

RECURSIVE WeightedSum(_, _)
WeightedSum(list, t) ==
    IF Len(list) = 0 THEN Zero
    ELSE XAdd(XMul(ObservationFor(list[1].df.rows, t), Rat(list[1].share, 100)),
              WeightedSum(Tail(list), t))

\* C1: the NAV curve of a portfolio has exactly the union of the retained
\* series' timestamps, ascending, and at each timestamp t the value
\* sum_i value_i(t) * share_i / 100, value_i(t) being the fund's latest own
\* observation at or before t, or its earliest one when there is none.
C1_NavCurve ==
    (Aggregated /\ AllObserved(ret.list)) =>
        /\ {p_nav[k].t : k \in DOMAIN p_nav} = UnionOfTimestamps(ret.list)
        /\ \A k \in DOMAIN p_nav : k > 1 => p_nav[k - 1].t < p_nav[k].t
        /\ \A k \in DOMAIN p_nav : p_nav[k].v = WeightedSum(ret.list, p_nav[k].t)

\* two retained funds, one carried forward at a timestamp that only the
\* other has, and the other taken backward at a timestamp before its first
C1_Witness ==
    /\ Aggregated /\ AllObserved(ret.list)
    /\ Len(ret.list) = 2
    /\ \E k \in DOMAIN p_nav :
          /\ p_nav[k].t \notin IndexSet(ret.list[1].df.rows)
          /\ p_nav[k].t > FirstTimestamp(ret.list[1].df.rows)
    /\ p_nav[1].t < FirstTimestamp(ret.list[2].df.rows)
    /\ \E k \in DOMAIN p_nav : p_nav[k].v # One /\ IsFinite(p_nav[k].v)
    /\ \A k \in DOMAIN p_nav : p_nav[k].v = WeightedSum(ret.list, p_nav[k].t)

RECURSIVE SumOfShares(_)
SumOfShares(list) ==
    IF Len(list) = 0 THEN 0 ELSE list[1].share + SumOfShares(Tail(list))

AllRebased(list) ==
    \A i \in DOMAIN list : ValueAtFirstTimestamp(list[i].df.rows) = One

\* C5: when the shares of the retained funds sum to 100 and every retained
\* fund has value 1.0 at its own first retained timestamp, the NAV at the
\* first timestamp of the curve is 1.0.
C5_NavStartsAtOne ==
    (Aggregated /\ SumOfShares(ret.list) = 100 /\ AllRebased(ret.list)) =>
        /\ Len(p_nav) > 0
        /\ p_nav[1].v = One
        /\ HasCurve(p_nav)

\* shares 40 and 60, the second fund starts after the first timestamp of
\* the curve and is back-filled there
C5_Witness ==
    /\ Aggregated /\ SumOfShares(ret.list) = 100 /\ AllRebased(ret.list)
    /\ Len(ret.list) = 2
    /\ ret.list[1].share # ret.list[2].share
    /\ p_nav[1].t < FirstTimestamp(ret.list[2].df.rows)
    /\ p_nav[1].v = One
    /\ \E k \in DOMAIN p_nav : p_nav[k].v # One

\* the curve a portfolio yields when it is processed on its own
CurveAlone(p) ==
    LET loaded == LoadedFundDfs(p.funds)
        aligned == overlay_align_time_series_data(loaded).list
    IN  IF Len(loaded) > 0 /\ Len(aligned) > 0 THEN PortfolioNav(aligned) ELSE <<>>

\* C10: degenerate or malformed data of one portfolio or fund never makes
\* the callback raise, and never keeps another portfolio from its NAV curve
\* and its metrics: when a portfolio on its own yields a curve, the
\* response carries that curve, and its metrics whenever they exist.
C10_DegenerateDataIsContained ==
    /\ hpc # "raised"
    /\ (hpc = "done" /\ n_clicks # 0) =>
          \A i \in DOMAIN portfolios :
              (~LoadRaises(portfolios[i].funds) /\ HasCurve(CurveAlone(portfolios[i]))) =>
                  /\ \E k \in DOMAIN traces : traces[k].x_y = CurveAlone(portfolios[i])
                  /\ calculate_investment_metrics(CurveAlone(portfolios[i])) # None =>
                        \E k \in DOMAIN analytics_data :
                            /\ analytics_data[k].portfolio_name =
                                  <<portfolios[i].name, portfolios[i].p_id>>
                            /\ Some(analytics_data[k].metrics) =
                                  calculate_investment_metrics(CurveAlone(portfolios[i]))

\* the portfolio a feedback message belongs to
PortfolioOf(message) ==
    portfolios[CHOOSE i \in DOMAIN portfolios : portfolios[i].p_id = message.p_id]

\* C11: every processed portfolio whose fund shares do not sum to 100 gets a
\* warning in its feedback message, and its NAV is still computed with the
\* shares as given.
C11_ShareMismatchWarns ==
    \A k \in DOMAIN feedback_messages :
        TotalShare(PortfolioOf(feedback_messages[k]).funds) # 100 =>
            /\ feedback_messages[k].share_warning # None
            /\ HasCurve(CurveAlone(PortfolioOf(feedback_messages[k]))) =>
                  \E j \in DOMAIN traces :
                      traces[j].x_y = CurveAlone(PortfolioOf(feedback_messages[k]))

\* the portfolio whose iteration of the loop has just run
Processed == portfolios[p_idx - 1]

AfterIteration == hpc \in {"loop", "done"} /\ p_idx > 1

\* a fund with a data source and no share
HasNoShare(fund) == fund.share = None /\ fund.source # "none"

WithoutNoShare(p) ==
    Portfolio(p.p_id, p.name, SelectSeq(p.funds, LAMBDA fund : ~HasNoShare(fund)))

\* C15: a fund with a data source and no share is left out of the
\* aggregation: the curve of the portfolio is the curve of the same portfolio
\* without that fund, and nothing is raised on its account.
C15_NoShareFundIsExcluded ==
    /\ (hpc = "raised" /\ \E i \in DOMAIN portfolios[p_idx].funds :
                               HasNoShare(portfolios[p_idx].funds[i])) =>
           LoadRaises(WithoutNoShare(portfolios[p_idx]).funds)
    /\ (AfterIteration /\ \E i \in DOMAIN Processed.funds : HasNoShare(Processed.funds[i])) =>
           p_nav = CurveAlone(WithoutNoShare(Processed))

\* every column of the aggregated frame is entirely missing
NothingDefined(list) ==
    \A i \in DOMAIN list : \A k \in DOMAIN list[i].df.rows : IsNaN(list[i].df.rows[k].v)

KeyOf(p) == <<p.name, p.p_id>>

\* C17: when no retained fund has a defined value at any timestamp, the
\* portfolio gets no curve and no metrics record.
C17_EmptyAggregateGivesNothing ==
    (AfterIteration /\ Len(ret.list) > 0 /\ NothingDefined(ret.list)) =>
        /\ ~HasCurve(p_nav)
        /\ \A k \in DOMAIN portfolio_nav_data : portfolio_nav_data[k].key # KeyOf(Processed)
        /\ \A k \in DOMAIN analytics_data :
              analytics_data[k].portfolio_name # KeyOf(Processed)

\* the same form, the rows of every table in ascending order of time
SortedFund(fund) ==
    [fund EXCEPT !.table = [fund.table EXCEPT !.rows = SortIndex(fund.table.rows)]]

SortedPortfolio(p) ==
    Portfolio(p.p_id, p.name, [i \in DOMAIN p.funds |-> SortedFund(p.funds[i])])

\* C19: rows supplied in arbitrary order of time give the same curve as the
\* same rows in ascending order.
C19_RowOrderIsIrrelevant ==
    AfterIteration => p_nav = CurveAlone(SortedPortfolio(Processed))

\* ------------------------------------------------------------------------
\* The aligner, relations between calls
\* ------------------------------------------------------------------------
\* the list without its i-th entry
Without(list, i) ==
    [j \in 1..(Len(list) - 1) |-> IF j < i THEN list[j] ELSE list[j + 1]]

\* input fund i survives the cut and has value 0 at its first retained row
ZeroAtAlignedStart(i) ==
    /\ Len(ret.stats) = 1
    /\ Cut(i) # <<>>
    /\ FirstValue([fund_id |-> i, rows |-> Cut(i)]) = Zero

\* C16: when a fund of the input has value 0 at its aligned start, the list
\* returned by the analytics aligner is the list it returns for the same
\* input without that fund.
C16_ZeroBaseFundIsAsIfRemoved ==
    (impl = "analytics" /\ ~ret.raised) =>
        \A i \in DOMAIN fund_dfs :
            ZeroAtAlignedStart(i) =>
                /\ ~align_time_series_data(Without(fund_dfs, i)).raised
                /\ ret.list = align_time_series_data(Without(fund_dfs, i)).list

\* the first timestamps of the non-empty series of a list
Starts(list) ==
    {FirstTimestamp(list[i].df.rows) : i \in {j \in DOMAIN list : ~Empty(list[j].df)}}

InputOf(entry) ==
    fund_dfs[CHOOSE i \in DOMAIN fund_dfs : fund_dfs[i].df.fund_id = entry.df.fund_id]

\* C18: for a list with at least one non-empty series, either implementation
\* reports aligned = false exactly when all non-empty series have the same
\* first timestamp, and then every returned series has the timestamps of its
\* input; it reports aligned = true exactly when some series starts before
\* latest_start.
C18_AlignedFlag ==
    (impl # "none" /\ Starts(fund_dfs) # {}) =>
        /\ ~ret.raised
        /\ Len(ret.stats) = 1
        /\ ret.stats[1].aligned = (Cardinality(Starts(fund_dfs)) > 1)
        /\ ret.stats[1].aligned = (\E s \in Starts(fund_dfs) : s < ret.stats[1].latest_start)
        /\ ~ret.stats[1].aligned =>
              \A j \in DOMAIN ret.list :
                  IndexSet(ret.list[j].df.rows) = IndexSet(InputOf(ret.list[j]).df.rows)

\* C20: a call of align_time_series_data, in either implementation and in
\* either branch, leaves the input list and every input series as they were.
C20_AlignIsPure == [][impl' # "none" => fund_dfs' = fund_dfs]_vars

\* a call that cut and rebased a series: the returned rows differ from the
\* rows of the input, which still has all its rows
C20_Witness ==
    /\ impl # "none" /\ ~ret.raised
    /\ Len(ret.stats) = 1 /\ ret.stats[1].aligned
    /\ \E j \in DOMAIN ret.list :
          /\ Len(ret.list[j].df.rows) < Len(InputOf(ret.list[j]).df.rows)
          /\ ret.list[j].df.rows[1].v # ValueAt(InputOf(ret.list[j]).df.rows,
                                                ret.list[j].df.rows[1].t)

\* ------------------------------------------------------------------------
\* The cross-portfolio callback
\* ------------------------------------------------------------------------
\* the second loop of generate_normalized_chart is running or has run
GlobalStarted == hpc = "normalize" /\ Len(global_latest_start) = 1

\* the aligned start of a portfolio on its own: the latest first timestamp
\* among its non-empty fund series
OwnAlignedStart(pdata) == SetMax(Starts(pdata.fund_dfs))

WithData == {i \in DOMAIN portfolio_data : Starts(portfolio_data[i].fund_dfs) # {}}

\* C12: global_latest_start is the maximum, over the portfolios with data,
\* of the portfolio's own aligned start.
C12_GlobalStartIsMaxOfAlignedStarts ==
    (GlobalStarted /\ WithData # {}) =>
        global_latest_start[1] =
            SetMax({OwnAlignedStart(portfolio_data[i]) : i \in WithData})

\* an iteration of the second loop has run
Normalized == GlobalStarted /\ p_idx > 1

RawCut(entry) == Truncate(entry.df.rows, global_latest_start[1])

\* C13: in the global path every fund series entering the aggregation has
\* only timestamps >= global_latest_start and value 1.0 at its first
\* retained timestamp, and a series whose first retained value is 0 does
\* not enter it.
C13_GlobalRebase ==
    Normalized =>
        /\ \A j \in DOMAIN normalized_fund_dfs :
              /\ \A k \in DOMAIN normalized_fund_dfs[j].df.rows :
                    normalized_fund_dfs[j].df.rows[k].t >= global_latest_start[1]
              /\ ValueAtFirstTimestamp(normalized_fund_dfs[j].df.rows) = One
        /\ \A i \in DOMAIN fund_dfs :
              (RawCut(fund_dfs[i]) # <<>> /\ ValueAtFirstTimestamp(RawCut(fund_dfs[i])) = Zero) =>
                  \A j \in DOMAIN normalized_fund_dfs :
                      normalized_fund_dfs[j].df.fund_id # fund_dfs[i].df.fund_id

\* C14: every curve produced by one call of generate_normalized_chart
\* begins at global_latest_start.
C14_CurvesShareTheStart ==
    GlobalStarted =>
        \A k \in DOMAIN traces : traces[k].x_y[1].t = global_latest_start[1]

\* ------------------------------------------------------------------------
\* The Calmar ratio
\* ------------------------------------------------------------------------
\* C21: once the locals are computed, calmar_ratio is
\* (annualized_return / 100) / |max_drawdown / 100| when the unrounded
\* max_drawdown is negative, that is calmar_ratio * |max_drawdown| is
\* annualized_return, and it is 0 otherwise; the divisor is never zero, so a
\* finite annualized_return gives a finite calmar_ratio; the dictionary holds
\* calmar_ratio rounded to 3 decimals.
C21_CalmarRatio ==
    Computed =>
        /\ XLt(max_drawdown, Zero) =>
              /\ XAbs(XDiv(max_drawdown, Int2X(100))) # Zero
              /\ XMul(calmar_ratio, XAbs(max_drawdown)) = annualized_return
        /\ ~XLt(max_drawdown, Zero) => calmar_ratio = Zero
        /\ IsFinite(annualized_return) => IsFinite(calmar_ratio)
        /\ mpc = "done" => metrics[1].calmar_ratio = Round(calmar_ratio, 1000)

\* a dictionary is returned for a series with a drawdown and a finite
\* annualized return other than 0, and its calmar_ratio is not 0
C21_Witness ==
    /\ mpc = "done"
    /\ Len(metrics) = 1
    /\ XLt(max_drawdown, Zero)
    /\ IsFinite(annualized_return)
    /\ annualized_return # Zero
    /\ metrics[1].calmar_ratio # Zero

\* ------------------------------------------------------------------------
\* One year, 1.0 to 1.21
\* ------------------------------------------------------------------------
\* C23: for the two-point series 1.0, 1.21 with the observations exactly 365
\* days apart the dictionary has days = 365, total_return = 21.00 and
\* max_drawdown = 0.00, and annualized_return is 21.00 up to 0.05 (the year
\* of 365.25 days makes it slightly more than the total return).
C23_OneYear ==
    (nav_arg = OneYearScenario /\ mpc = "done") =>
        /\ Len(metrics) = 1
        /\ metrics[1].days = 365
        /\ metrics[1].total_return = Int2X(21)
        /\ metrics[1].max_drawdown = Zero
        /\ ~XLt(metrics[1].annualized_return, Rat(2095, 100))
        /\ ~XLt(Rat(2105, 100), metrics[1].annualized_return)
        /\ IsFinite(metrics[1].annualized_return)

\* the call on the one-year series has returned its dictionary
C23_Witness ==
    /\ nav_arg = OneYearScenario
    /\ mpc = "done"
    /\ Len(metrics) = 1
    /\ metrics[1].days = 365

\* ------------------------------------------------------------------------
\* The drawdown metrics agree with each other
\* ------------------------------------------------------------------------
NonDecreasing(nav) == \A j \in 2..Len(nav) : ~XLt(nav[j].v, nav[j - 1].v)

\* C30: for a series of positive values with at least 2 points the
\* dictionary has max_consecutive_down = 0 exactly when the unrounded
\* max_drawdown is 0, which is exactly when the series never decreases; then
\* calmar_ratio is 0; and max_consecutive_down is at most the number of
\* steps minus the number of steps with a strictly positive return.
C30_DrawdownMetricsAgree ==
    (mpc = "done" /\ Len(nav_arg) >= 2 /\ PositiveSeries(nav_arg)) =>
        /\ Len(metrics) = 1
        /\ (metrics[1].max_consecutive_down = 0) <=> (max_drawdown = Zero)
        /\ (max_drawdown = Zero) <=> NonDecreasing(nav_arg)
        /\ NonDecreasing(nav_arg) =>
              (calmar_ratio = Zero /\ metrics[1].calmar_ratio = Zero)
        /\ metrics[1].max_consecutive_down
               <= (Len(nav_arg) - 1) - Cardinality(GainSteps(nav_arg))

\* a series that rises and then falls twice: the bound on the down run is
\* met with equality, and the drawdown is negative
C30_Witness ==
    /\ mpc = "done" /\ Len(metrics) = 1
    /\ Len(nav_arg) = 4 /\ PositiveSeries(nav_arg)
    /\ Cardinality(GainSteps(nav_arg)) = 1
    /\ metrics[1].max_consecutive_down = 2
    /\ XLt(max_drawdown, Zero)

\* a series that rises without ever falling
C30_WitnessMonotone ==
    /\ mpc = "done" /\ Len(metrics) = 1
    /\ Len(nav_arg) = 3 /\ PositiveSeries(nav_arg)
    /\ Cardinality(GainSteps(nav_arg)) = 2
    /\ metrics[1].max_consecutive_down = 0
    /\ max_drawdown = Zero
    /\ annualized_return # Zero
    /\ calmar_ratio = Zero

\* ------------------------------------------------------------------------
\* Rebasing twice
\* ------------------------------------------------------------------------
\* the call of analytics.py gave a report
Reported == impl = "analytics" /\ ~ret.raised /\ Len(ret.stats) = 1

\* C22: rebasing is idempotent. A series whose first value is already 1.0
\* comes back from the not-aligned branch of analytics.py as it went in,
\* and rebasing any returned series once more returns the same series.
C22_RebaseIsIdempotent ==
    Reported =>
        /\ \A j \in DOMAIN ret.list : NormalizedDf(ret.list[j].df) = ret.list[j].df
        /\ ~ret.stats[1].aligned =>
              \A i \in DOMAIN fund_dfs :
                  FirstValue(fund_dfs[i].df) = One =>
                      \E j \in DOMAIN ret.list : ret.list[j] = fund_dfs[i]

\* a series 1.0, 2.0 went through the not-aligned branch and came back equal
C22_Witness ==
    /\ Reported
    /\ ~ret.stats[1].aligned
    /\ \E i \in DOMAIN fund_dfs :
          /\ Len(fund_dfs[i].df.rows) = 2
          /\ FirstValue(fund_dfs[i].df) = One
          /\ fund_dfs[i].df.rows[2].v = Int2X(2)
          /\ \E j \in DOMAIN ret.list : ret.list[j] = fund_dfs[i]

\* ------------------------------------------------------------------------
\* Series without observations
\* ------------------------------------------------------------------------
\* C24: for every non-empty list, series without observations included, the
\* call of analytics.py returns normally and no returned series is empty.
C24_EmptySeriesAreTolerated ==
    (impl = "analytics" /\ Len(fund_dfs) > 0) =>
        /\ ~ret.raised
        /\ AllNonEmpty(ret.list)

\* ------------------------------------------------------------------------
\* The unified start
\* ------------------------------------------------------------------------
\* the rows of a list of funds, without the rebasing
RowsOfList(list) == [j \in DOMAIN list |-> list[j].df.rows]

TimestampsOf(rows) == [k \in DOMAIN rows |-> rows[k].t]

\* C27: after the call of analytics.py every returned series has the same
\* first timestamp, the reported latest_start; applying the function to its
\* own output then reports aligned = false and removes no observation.
C27_UnifiedStart ==
    (Reported /\ Len(ret.list) > 0) =>
        /\ \A j \in DOMAIN ret.list :
              FirstTimestamp(ret.list[j].df.rows) = ret.stats[1].latest_start
        /\ LET again == align_time_series_data(ret.list)
           IN  /\ ~again.raised
               /\ Len(again.stats) = 1
               /\ ~again.stats[1].aligned
               /\ Len(again.list) = Len(ret.list)
               /\ \A j \in DOMAIN again.list :
                      TimestampsOf(again.list[j].df.rows)
                          = TimestampsOf(ret.list[j].df.rows)

\* ------------------------------------------------------------------------
\* The two implementations
\* ------------------------------------------------------------------------
\* every series of the list has a first row, with the value 1.0
PreRebased(list) ==
    \A i \in DOMAIN list : ~Empty(list[i].df) /\ FirstValue(list[i].df) = One

\* C29: on a list of series that are each rebased to 1.0 at their own first
\* value, the function of overlay.py and the function of analytics.py
\* return the same list and the same report: what one call returned is what
\* the other implementation returns for the same input.
C29_ImplementationsAgree ==
    (impl # "none" /\ PreRebased(fund_dfs)) =>
        /\ impl = "analytics" => ret = overlay_align_time_series_data(fund_dfs)
        /\ impl = "overlay" => ret = align_time_series_data(fund_dfs)

\* ------------------------------------------------------------------------
\* The outputs of generate_normalized_chart
\* ------------------------------------------------------------------------
\* C25: generate_normalized_chart completes on every input with one value
\* for each of its four declared outputs: no exception leaves it, and when
\* it has returned, also with no usable fund data or with curves that have
\* no timestamp in common, four values were returned.
C25_FourOutputsAlways ==
    /\ hpc # "raised"
    /\ hpc = "done" => returned_values = 4

\* ------------------------------------------------------------------------
\* One metrics record per curve
\* ------------------------------------------------------------------------
\* the curves of the response that have at least 2 valid points
CurvesWithTwoPoints == {k \in DOMAIN traces : Len(ValidPoints(traces[k].x_y)) >= 2}

\* C26: when generate_normalized_chart has returned its outputs, every curve
\* with at least 2 valid points has a metrics record that was computed from
\* that curve, and there are as many records as such curves, also when two
\* portfolios carry the same display name.
C26_OneRecordPerCurve ==
    (hpc = "done" /\ returned_values = 4) =>
        /\ Len(analytics_data) = Cardinality(CurvesWithTwoPoints)
        /\ \A k \in CurvesWithTwoPoints :
              \E r \in DOMAIN analytics_data :
                  /\ analytics_data[r].portfolio_name = traces[k].name
                  /\ Some(analytics_data[r].metrics)
                         = calculate_investment_metrics(traces[k].x_y)

\* ------------------------------------------------------------------------
\* The page loop of the fetcher
\* ------------------------------------------------------------------------
\* page p ends the loop: it failed, lacks data, is empty or is short
Stops(p) == LacksData(responses[p]) \/ Len(LsjzList(responses[p])) < PageSize

\* the number of pages the loop asks for
PagesDue ==
    IF \E p \in 1..max_pages : Stops(p)
    THEN SetMin({p \in 1..max_pages : Stops(p)})
    ELSE max_pages

\* the records of the pages 1..n, in page order
RECURSIVE Concatenation(_)
Concatenation(n) ==
    IF n = 0 THEN <<>> ELSE Concatenation(n - 1) \o LsjzList(responses[n])

FetchInvariant ==
    /\ fpc \in {"loop", "done"}
    /\ Len(requests) <= max_pages
    /\ requests = [i \in 1..Len(requests) |-> i]
    /\ \A i \in 1..(Len(requests) - 1) : ~Stops(requests[i])
    /\ fpc = "done" =>
          /\ Len(requests) = PagesDue
          /\ all_data = Concatenation(PagesDue)

\* C28: fetch_all_data asks for the pages 1, 2, 3, ... in order and for at
\* most max_pages of them, asks for no page after one that failed, lacks
\* data, is empty or has fewer than 20 records, and returns the records of
\* the pages it asked for in page order, the short last page included; a
\* failing page ends the loop without an exception; and the call returns.
C28_FetchAllData == [](FetchInvariant) /\ <>(fpc = "done")

\* the second of three pages failed: the 20 records of page 1 are returned
C28_Witness ==
    /\ fpc = "done"
    /\ max_pages = 3
    /\ responses[2] = NoPage
    /\ requests = <<1, 2>>
    /\ all_data = DataPage(1, PageSize).records

====
